---- MODULE Spec2Model ----
(***************************************************************************)
(* The event/profile import pipeline of smartabasepy:                      *)
(*   import_.py           insert/update/upsert_event_data,                 *)
(*                        upsert_profile_data                              *)
(*   import_validate.py   _validate_import_df and its three checks         *)
(*   utils.py             AMSClient._fetch, get_client                     *)
(* and, each under a specification of its own,                             *)
(*   user_process.py      _match_users_to_mapping                          *)
(*   import_option.py     the option constructors                          *)
(*   utils.py, login_.py  get_client, AMSClient.__init__, login            *)
(*   delete_all_database_entries.py, database_.py                          *)
(*   user_.py             edit_user                                        *)
(*   file_main.py         upload_files                                     *)
(*   user_process.py      _process_users                                   *)
(*   utils.py, delete_.py AMSClient._fetch and its response cache,         *)
(*                        delete_event_data, delete_multiple_events        *)
(* The modules import_clean, import_process, import_build, import_fetch    *)
(* and import_print are imported by import_.py but are not part of the     *)
(* source tree; their operators below follow the written specification.    *)
(***************************************************************************)
EXTENDS Integers, Sequences, FiniteSets, TLC

(***************************************************************************)
(* Bounds of the model.                                                    *)
(***************************************************************************)
\* longest batch handed to an entry point
MaxRecs == 2
\* longest batch handed to the validator on its own
MaxValRows == 2

(***************************************************************************)
(* Cell values of a DataFrame.  A cell is NaN, a Python str (a sequence of *)
(* one-character strings), a number, or another object for which           *)
(* pandas.notna gives a plain True (a dict).  A list cell, for which       *)
(* pandas.notna gives an array, is not among the cells drawn.              *)
(***************************************************************************)
NaN == [k |-> "nan", s |-> <<>>, n |-> 0]
Str(cs) == [k |-> "str", s |-> cs, n |-> 0]
Num(i) == [k |-> "num", s |-> <<>>, n |-> i]
Obj == [k |-> "obj", s |-> <<>>, n |-> 0]

\* pandas.notna / pandas.isna on a scalar cell
notna(x) == x.k # "nan"
isna(x) == x.k = "nan"
\* isinstance(x, str)
IsStr(x) == x.k = "str"
\* isinstance(x, (int, float, str)); NaN is a float
IsIntFloatStr(x) == x.k \in {"str", "num", "nan"}

(***************************************************************************)
(* str.strip() and str.lower() on the characters the model uses.           *)
(***************************************************************************)
Whitespace == {" ", "\t", "\n"}

RECURSIVE LStrip(_)
LStrip(cs) ==
    IF cs # <<>> /\ Head(cs) \in Whitespace THEN LStrip(Tail(cs)) ELSE cs

RECURSIVE RStrip(_)
RStrip(cs) ==
    IF cs # <<>> /\ cs[Len(cs)] \in Whitespace
    THEN RStrip(SubSeq(cs, 1, Len(cs) - 1))
    ELSE cs

Strip(cs) == RStrip(LStrip(cs))

LowerChar(c) ==
    CASE c = "Y" -> "y"
      [] c = "E" -> "e"
      [] c = "S" -> "s"
      [] c = "N" -> "n"
      [] c = "O" -> "o"
      [] c = "P" -> "p"
      [] OTHER -> c

Lower(cs) == [i \in 1..Len(cs) |-> LowerChar(cs[i])]

\* confirm = input(...).strip().lower(); confirm in ['y', 'yes']
ConfirmedMutAcceptAll(answer) == TRUE
Confirmed(answer) == Lower(Strip(answer)) \in {<<"y">>, <<"y", "e", "s">>}

(***************************************************************************)
(* datetime.strptime(x, "%d/%m/%Y"): the format's regular expression is    *)
(*   (3[0-1]|[1-2]\d|0[1-9]|[1-9]| [1-9]) / (1[0-2]|0[1-9]|[1-9]) / \d{4}  *)
(* matched against the whole string, then the date must exist.             *)
(***************************************************************************)
Digits == {"0", "1", "2", "3", "4", "5", "6", "7", "8", "9"}
NonZeroDigits == Digits \ {"0"}

DigitVal(c) ==
    CASE c = "0" -> 0 [] c = "1" -> 1 [] c = "2" -> 2 [] c = "3" -> 3
      [] c = "4" -> 4 [] c = "5" -> 5 [] c = "6" -> 6 [] c = "7" -> 7
      [] c = "8" -> 8 [] c = "9" -> 9 [] OTHER -> 0

RECURSIVE ToInt(_)
ToInt(cs) ==
    IF cs = <<>> THEN 0
    ELSE 10 * ToInt(SubSeq(cs, 1, Len(cs) - 1)) + DigitVal(cs[Len(cs)])

\* the pieces of cs between the occurrences of sep
RECURSIVE SplitOn(_, _)
SplitOn(cs, sep) ==
    IF cs = <<>> THEN << <<>> >>
    ELSE LET rest == SplitOn(Tail(cs), sep)
         IN  IF Head(cs) = sep
             THEN << <<>> >> \o rest
             ELSE << <<Head(cs)>> \o rest[1] >> \o Tail(rest)

DayToken(p) ==
    \/ Len(p) = 1 /\ p[1] \in NonZeroDigits
    \/ Len(p) = 2 /\ \/ p[1] = "3" /\ p[2] \in {"0", "1"}
                     \/ p[1] \in {"1", "2"} /\ p[2] \in Digits
                     \/ p[1] = "0" /\ p[2] \in NonZeroDigits
                     \/ p[1] = " " /\ p[2] \in NonZeroDigits

MonthToken(p) ==
    \/ Len(p) = 1 /\ p[1] \in NonZeroDigits
    \/ Len(p) = 2 /\ \/ p[1] = "1" /\ p[2] \in {"0", "1", "2"}
                     \/ p[1] = "0" /\ p[2] \in NonZeroDigits

YearToken(p) == Len(p) = 4 /\ \A i \in 1..4 : p[i] \in Digits

IsLeap(y) == (y % 4 = 0 /\ y % 100 # 0) \/ y % 400 = 0

DaysInMonth(y, m) ==
    CASE m \in {4, 6, 9, 11} -> 30
      [] m = 2 -> IF IsLeap(y) THEN 29 ELSE 28
      [] OTHER -> 31

\* TRUE when strptime returns a datetime, FALSE when it raises ValueError
StrptimeOK(cs) ==
    LET parts == SplitOn(cs, "/")
    IN  /\ Len(parts) = 3
        /\ DayToken(parts[1])
        /\ MonthToken(parts[2])
        /\ YearToken(parts[3])
        /\ LET d == ToInt(IF parts[1][1] = " " THEN Tail(parts[1]) ELSE parts[1])
               m == ToInt(parts[2])
               y == ToInt(parts[3])
           IN  y >= 1 /\ d <= DaysInMonth(y, m)

(***************************************************************************)
(* A DataFrame: the set of its column names and the sequence of its rows.  *)
(* The column "ident" stands for the column named by option.id_col when    *)
(* that is not "user_id".  A row carries idx, its original index label.    *)
(* A cell of a column the frame does not have is never read.               *)
(***************************************************************************)
DateCols == <<"start_date", "end_date">>
TimeCols == <<"start_time", "end_time">>

Column(df, col) == [i \in 1..Len(df.rows) |-> df.rows[i][col]]

\* DataFrame.empty: an axis of length 0
DfEmpty(df) == Len(df.rows) = 0 \/ df.cols = {}

(***************************************************************************)
(* _validate_ids.  The result is "ok" or the message of the AMSError.      *)
(***************************************************************************)
UserIdCellOK(x) == IsIntFloatStr(x) /\ notna(x)
EventIdCellOK(x) == (notna(x) /\ IsIntFloatStr(x)) \/ isna(x)

ValidateIds(df, overwrite_existing) ==
    IF "user_id" \notin df.cols
    THEN "user_id column is required"
    ELSE IF ~(\A i \in 1..Len(df.rows) : UserIdCellOK(Column(df, "user_id")[i]))
    THEN "user_id column must contain valid values"
    ELSE IF /\ overwrite_existing
            /\ "event_id" \in df.cols
            /\ ~(\A i \in 1..Len(df.rows) : EventIdCellOK(Column(df, "event_id")[i]))
    THEN "event_id must contain valid values or NaN when overwrite_existing=True"
    ELSE "ok"

(***************************************************************************)
(* _validate_dates and _validate_times.                                    *)
(***************************************************************************)
StrOrNaN(x) == (notna(x) /\ IsStr(x)) \/ isna(x)

MustBeStringsMsg(col) ==
    CASE col = "start_date" -> "start_date column must contain valid strings"
      [] col = "end_date" -> "end_date column must contain valid strings"
      [] col = "start_time" -> "start_time column must contain valid strings"
      [] col = "end_time" -> "end_time column must contain valid strings"

DateFormatMsg(col) ==
    CASE col = "start_date" -> "start_date column must be in format DD/MM/YYYY"
      [] col = "end_date" -> "end_date column must be in format DD/MM/YYYY"

\* df[col].dropna(), then the cells that are not ""
NonEmptyDates(cells) == SelectSeq(cells, LAMBDA x : notna(x) /\ x # Str(<<>>))

\* the check of one date column
ValidateDateColMutNoEmptyFilter(df, col) ==
    IF col \notin df.cols THEN "ok"
    ELSE IF ~(\A i \in 1..Len(df.rows) : StrOrNaN(Column(df, col)[i]))
    THEN MustBeStringsMsg(col)
    ELSE IF \E i \in 1..Len(df.rows) :
                notna(df.rows[i][col]) /\ ~StrptimeOK(df.rows[i][col].s)
    THEN DateFormatMsg(col)
    ELSE "ok"
ValidateDateCol(df, col) ==
    IF col \notin df.cols THEN "ok"
    ELSE IF ~(\A i \in 1..Len(df.rows) : StrOrNaN(Column(df, col)[i]))
    THEN MustBeStringsMsg(col)
    ELSE LET non_empty_dates == NonEmptyDates(Column(df, col))
         IN  IF /\ non_empty_dates # <<>>
                /\ \E i \in 1..Len(non_empty_dates) :
                       ~StrptimeOK(non_empty_dates[i].s)
             THEN DateFormatMsg(col)
             ELSE "ok"

\* for col in ["start_date", "end_date"]: the first column whose check raises decides
ValidateDates(df) ==
    LET first == ValidateDateCol(df, DateCols[1])
    IN  IF first # "ok" THEN first ELSE ValidateDateCol(df, DateCols[2])

ValidateTimeCol(df, col) ==
    IF col \notin df.cols THEN "ok"
    ELSE IF ~(\A i \in 1..Len(df.rows) : StrOrNaN(Column(df, col)[i]))
    THEN MustBeStringsMsg(col)
    ELSE "ok"

\* for col in ["start_time", "end_time"]
ValidateTimes(df) ==
    LET first == ValidateTimeCol(df, TimeCols[1])
    IN  IF first # "ok" THEN first ELSE ValidateTimeCol(df, TimeCols[2])

(***************************************************************************)
(* _validate_import_df: the first failing check raises.                    *)
(***************************************************************************)
EmptyMsg == "DataFrame must not be empty"
FormMsg == "Form must be a non-empty string"

ValidateRest(df, overwrite_existing) ==
    LET ids == ValidateIds(df, overwrite_existing)
        dates == ValidateDates(df)
    IN  IF ids # "ok" THEN ids
        ELSE IF dates # "ok" THEN dates
        ELSE ValidateTimes(df)

ValidateImportDfMutIdsFirst(df, form, overwrite_existing) ==
    LET rest == ValidateRest(df, overwrite_existing)
    IN  IF rest # "ok" THEN rest
        ELSE IF DfEmpty(df) THEN EmptyMsg
        ELSE IF form = "" THEN FormMsg
        ELSE "ok"
ValidateImportDf(df, form, overwrite_existing) ==
    IF DfEmpty(df) THEN EmptyMsg
    ELSE IF form = "" THEN FormMsg
    ELSE ValidateRest(df, overwrite_existing)

(***************************************************************************)
(* The user directory of the remote service and the inputs of a call.      *)
(***************************************************************************)
Directory ==
    << [id |-> 101, username |-> <<"r", "j">>],
       [id |-> 102, username |-> <<"s", "f">>] >>

Ops == {"insert", "update", "upsert", "profile"}
\* the id_col values the model draws: the numeric id and one looked-up column
IdCols == {"user_id", "username"}
\* what the caller passes for client / username / password
ClientArgs == {"client", "credentials", "nothing"}
\* what the user may type at the prompt
Answers == { <<"y">>, <<" ", "Y", "E", "S", " ">>, <<"n">>, <<>>, <<"y", "e", "p">> }
\* what the server may do with one request
Responses == {"200", "500", "transport"}

GoodDate == Str(<<"0", "1", "/", "0", "4", "/", "2", "0", "2", "5">>)
BadDate == Str(<<"3", "2", "/", "0", "1", "/", "2", "0", "2", "5">>)

\* the kinds of row a batch is made of
RowKinds ==
    { [who |-> "known",   event_id |-> NaN,    start_date |-> GoodDate, start_time |-> NaN],
      [who |-> "known",   event_id |-> Num(5), start_date |-> GoodDate, start_time |-> NaN],
      [who |-> "known2",  event_id |-> NaN,    start_date |-> GoodDate, start_time |-> NaN],
      [who |-> "unknown", event_id |-> NaN,    start_date |-> GoodDate, start_time |-> NaN],
      [who |-> "null",    event_id |-> NaN,    start_date |-> GoodDate, start_time |-> NaN],
      [who |-> "known",   event_id |-> NaN,    start_date |-> BadDate,  start_time |-> NaN] }

\* the identifier cell of a row, in the column id_col names
IdentCell(who, id_col) ==
    CASE who = "null" -> NaN
      [] who = "known" ->
           IF id_col = "user_id" THEN Num(101) ELSE Str(Directory[1].username)
      [] who = "known2" ->
           IF id_col = "user_id" THEN Num(102) ELSE Str(Directory[2].username)
      [] who = "unknown" ->
           IF id_col = "user_id" THEN Num(999) ELSE Str(<<"z", "z">>)

MkRow(kind, id_col, hasId, hasEv, i) ==
    [ idx        |-> i,
      ident      |-> IF hasId /\ id_col # "user_id"
                     THEN IdentCell(kind.who, id_col) ELSE NaN,
      user_id    |-> IF hasId /\ id_col = "user_id"
                     THEN IdentCell(kind.who, id_col) ELSE NaN,
      event_id   |-> IF hasEv THEN kind.event_id ELSE NaN,
      start_date |-> kind.start_date,
      end_date   |-> NaN,
      start_time |-> kind.start_time,
      end_time   |-> NaN ]

MkDf(kinds, id_col, hasId, hasEv) ==
    [ cols |-> {"start_date", "end_date", "start_time", "end_time"}
               \cup (IF hasEv THEN {"event_id"} ELSE {})
               \cup (IF ~hasId THEN {}
                     ELSE IF id_col = "user_id" THEN {"user_id"} ELSE {"ident"}),
      rows |-> [i \in 1..Len(kinds) |-> MkRow(kinds[i], id_col, hasId, hasEv, i)] ]

KindSeqs == UNION { [1..n -> RowKinds] : n \in 0..MaxRecs }

EmptyDf == [cols |-> {}, rows |-> <<>>]
NoError == [type |-> "none", msg |-> ""]
AMSError(m) == [type |-> "AMSError", msg |-> m]

(***************************************************************************)
(* AMSClient._fetch on a client that is authenticated.  cache is the set   *)
(* of keys of self._cache; response is what the server does if asked.      *)
(***************************************************************************)
Fetch(cache, key, use_cache, response) ==
    IF use_cache /\ key \in cache
    THEN [sent |-> FALSE, outcome |-> "data", cache |-> cache]
    ELSE IF response = "transport"
    THEN [sent |-> TRUE, outcome |-> "RequestException", cache |-> cache]
    ELSE IF response # "200"
    THEN [sent |-> TRUE, outcome |-> "AMSError", cache |-> cache]
    ELSE [sent |-> TRUE, outcome |-> "data",
          cache |-> IF use_cache THEN cache \cup {key} ELSE {}]

(***************************************************************************)
(* The parts of import_.py.                                                *)
(***************************************************************************)
\* the overwrite_existing argument each entry point gives _validate_import_df
ValidateOverwrite(o) == o \in {"update", "upsert"}

\* df_clean[df_clean["event_id"].notna()] and df_clean[df_clean["event_id"].isna()]
UpdatesDf(d) == [d EXCEPT !.rows = SelectSeq(d.rows, LAMBDA r : notna(r.event_id))]
InsertsDfMutNoFilter(d) == d
InsertsDf(d) == [d EXCEPT !.rows = SelectSeq(d.rows, LAMBDA r : isna(r.event_id))]

\* the stage of an entry point that asks "Are you sure ...?" before dispatch
NeedsConfirmMutEveryStage(o, stg, interactive_mode) == interactive_mode
NeedsConfirm(o, stg, interactive_mode) ==
    /\ interactive_mode
    /\ \/ o \in {"update", "profile"}
       \/ o = "upsert" /\ stg = "updates"

\* all_results.extend(results)
ExtendResults(all_results, new) == all_results \o new

(***************************************************************************)
(* The parts the specification describes (their code is not in the tree).  *)
(***************************************************************************)
\* _clean_import_df / _clean_profile_df: no transformation is specified
CleanImportDf(d) == d

\* Identifier Resolver: the first directory entry with the identifier
RECURSIVE LookupUser(_, _)
LookupUser(dir, cell) ==
    IF dir = <<>> THEN NaN
    ELSE IF IsStr(cell) /\ Head(dir).username = cell.s THEN Num(Head(dir).id)
    ELSE LookupUser(Tail(dir), cell)

\* records_with_user_id of resolve(records, identifier_column)
MapIdColToUserId(d, dir) ==
    LET joined == [i \in 1..Len(d.rows) |->
                      [d.rows[i] EXCEPT !.user_id = LookupUser(dir, d.rows[i].ident)]]
    IN  [cols |-> d.cols \cup {"user_id"},
         rows |-> SelectSeq(joined, LAMBDA r : notna(r.user_id))]

\* unresolved of resolve(records, identifier_column)
Unresolved(d, dir) ==
    SelectSeq(d.rows, LAMBDA r : isna(LookupUser(dir, r.ident)))

\* one wire entry; existingEventId is present only when overwrite_existing
Absent == [k |-> "absent", s |-> <<>>, n |-> 0]
WireEntry(r, overwrite_existing) ==
    [ idx |-> r.idx, userId |-> r.user_id,
      existingEventId |-> IF overwrite_existing THEN r.event_id ELSE Absent ]

\* _build_import_payload: one payload holding every event of the frame
BuildImportPayload(d, overwrite_existing) ==
    << [events |-> [i \in 1..Len(d.rows) |-> WireEntry(d.rows[i], overwrite_existing)]] >>

\* _build_profile_payload: one payload per user, the last record of a user kept
BuildProfilePayload(d) ==
    LET n == Len(d.rows)
        last == SelectSeq(d.rows, LAMBDA r :
                    \A j \in 1..n : d.rows[j].user_id = r.user_id => d.rows[j].idx <= r.idx)
    IN  [i \in 1..Len(last) |-> [events |-> << WireEntry(last[i], FALSE) >>]]

\* the Outcome _fetch_import_payloads records for one payload
Outcome(action, payload, r) ==
    [ action |-> action,
      ok     |-> r.outcome = "data",
      reason |-> IF r.outcome = "data" THEN "" ELSE r.outcome,
      idxs   |-> [i \in 1..Len(payload.events) |-> payload.events[i].idx] ]

(***************************************************************************)
(* The stages of an entry point.  insert, update and profile have one      *)
(* stage; upsert has "updates" (if any record has an event_id) and then    *)
(* "inserts" (if any record has none).                                     *)
(***************************************************************************)
FirstStage(o, d) ==
    CASE o = "insert" -> "inserts"
      [] o = "update" -> "updates"
      [] o = "profile" -> "profile"
      [] o = "upsert" ->
           IF ~DfEmpty(UpdatesDf(d)) THEN "updates"
           ELSE IF ~DfEmpty(InsertsDf(d)) THEN "inserts"
           ELSE "none"

NextStage(o, stg, d) ==
    IF o = "upsert" /\ stg = "updates" /\ ~DfEmpty(InsertsDf(d))
    THEN "inserts"
    ELSE "none"

\* the frame a stage builds its payloads from
StageFrame(o, stg, d) ==
    IF o # "upsert" THEN d
    ELSE IF stg = "updates" THEN UpdatesDf(d)
    ELSE InsertsDf(d)

\* the overwrite_existing argument a stage gives _build_import_payload
StageOverwrite(stg) == stg = "updates"

StagePayloads(o, stg, d) ==
    IF o = "profile" THEN BuildProfilePayload(d)
    ELSE BuildImportPayload(StageFrame(o, stg, d), StageOverwrite(stg))

\* the action name a stage gives _fetch_import_payloads
StageAction(o, stg) ==
    CASE o = "profile" -> "upsert"
      [] stg = "updates" -> "update"
      [] OTHER -> "insert"

CancelMsg(o) ==
    IF o = "profile" THEN "Upsert operation cancelled by user."
    ELSE "Update operation cancelled by user."

(***************************************************************************)
(* Inputs of the validator on its own.                                     *)
(***************************************************************************)
IsoDate == Str(<<"2", "0", "2", "5", "-", "0", "4", "-", "0", "1">>)
ShortDate == Str(<<"1", "/", "4", "/", "2", "0", "2", "5">>)
Feb29 == Str(<<"2", "9", "/", "0", "2", "/", "2", "0", "2", "5">>)
EmptyStr == Str(<<>>)

StartDateCells == {NaN, EmptyStr, GoodDate, BadDate, IsoDate, ShortDate, Num(5)}
EndDateCells == {NaN, GoodDate, Feb29}

ValRow(uid, ev, sd, ed, st) ==
    [ idx |-> 0, ident |-> NaN, user_id |-> uid, event_id |-> ev,
      start_date |-> sd, end_date |-> ed, start_time |-> st, end_time |-> NaN ]

\* frames that vary the two date columns
DateRows(hasSd, hasEd) ==
    { ValRow(Num(101), NaN, sd, ed, NaN) :
        sd \in (IF hasSd THEN StartDateCells ELSE {NaN}),
        ed \in (IF hasEd THEN EndDateCells ELSE {NaN}) }

DateInputs ==
    UNION { { [ df |-> [ cols |-> {"user_id", "start_time", "end_time"}
                              \cup (IF hasSd THEN {"start_date"} ELSE {})
                              \cup (IF hasEd THEN {"end_date"} ELSE {}),
                         rows |-> rows ],
                form |-> "F", overwrite_existing |-> FALSE ] :
              rows \in UNION { [1..n -> DateRows(hasSd, hasEd)] : n \in 0..MaxValRows } } :
            hasSd \in BOOLEAN, hasEd \in BOOLEAN }

\* frames that vary the identifier columns, the time column, the form and the mode
StructRows(hasUid, hasEv) ==
    { ValRow(uid, ev, GoodDate, NaN, st) :
        uid \in (IF hasUid THEN {Num(101), NaN} ELSE {NaN}),
        ev \in (IF hasEv THEN {NaN, Num(5), Obj} ELSE {NaN}),
        st \in {NaN, Num(930)} }

StructInputs ==
    UNION { { [ df |-> [ cols |-> {"start_date", "start_time"}
                              \cup (IF hasUid THEN {"user_id"} ELSE {})
                              \cup (IF hasEv THEN {"event_id"} ELSE {}),
                         rows |-> rows ],
                form |-> form, overwrite_existing |-> ow ] :
              rows \in UNION { [1..n -> StructRows(hasUid, hasEv)] : n \in 0..MaxValRows },
              form \in {"", "F"}, ow \in BOOLEAN } :
            hasUid \in BOOLEAN, hasEv \in BOOLEAN }

ValInputs == DateInputs \cup StructInputs
NoValInput == [df |-> EmptyDf, form |-> "", overwrite_existing |-> FALSE]

(***************************************************************************)
(* State.                                                                  *)
(***************************************************************************)
VARIABLES
    pc,           \* position in the entry point: idle, get_client, map, validate,
                  \* build, confirm, dispatch, finish, done, raised
    op,           \* the entry point called
    opt,          \* its option object: interactive_mode, cache, id_col
    clientArg,    \* what the caller passed for client / username / password
    df,           \* the DataFrame passed
    df_clean,     \* df_clean of the entry point
    unresolved,   \* the records the resolver matched to no user
    verr,         \* what _validate_import_df did: "pending", "ok" or its message
    stage,        \* the stage being processed
    todo,         \* payloads of the stage not dispatched yet
    built,        \* every payload list built, with its action
    stageResults, \* results of the payloads of the stage dispatched so far
    results,      \* all_results / results handed to _print_import_status
    calls,        \* the requests sent to the server, in order
    prompts,      \* the confirmations asked, with the answer given
    clientCache,  \* keys of client._cache
    err,          \* the exception the entry point raised
    ret,          \* "pending" or the value returned
    vin,          \* validator on its own: its arguments
    vout          \* validator on its own: "pending", "ok" or the message raised

(***************************************************************************)
(* State of the operations outside the import pipeline, each exercised by  *)
(* a specification of its own.                                             *)
(***************************************************************************)
VARIABLES
    match_in,     \* _match_users_to_mapping on its own: its arguments, with the
                  \* dtype of mapping_df[user_key]
    match_out,    \* whether it has returned or raised, the pair (mapping_df,
                  \* failed_df) and the exception
    option_in,    \* an import option constructor on its own: class and arguments
    option_out,   \* whether it has returned or raised, and the option built
    env,          \* os.environ: AMS_USERNAME and AMS_PASSWORD ("" when unset)
    persistent_client, \* utils.persistent_client (NoClient for None)
    held,         \* the client the caller got from its last get_client call
    caches,       \* client._cache of every client created, by client ident
    icall,        \* the import call in progress: its client and option.cache
    last,         \* the last call of get_client, an import or login: arguments and outcome
    ncalls,       \* calls made so far
    db_entries,   \* ids of the entries the database form holds on the server
    del_call,     \* delete_all_database_entries: its locals, the ids it tried to
                  \* delete (attempts) and what it returned
    edit_in,      \* edit_user: mapping_df[user_key], the directory and user_key
    edit_out,     \* edit_user: the frame it returned, the users it tried to save and saved
    up_in,        \* upload_files: the files found at file_path and what the server does
    up_call,      \* upload_files: position in the loop, results, how the call ended
    proc_in,      \* _process_users: the rows of df and what the callbacks do for each
    proc_call,    \* _process_users: its locals, the rows attempted (attempts) and the
                  \* row behind each failure entry (failed_rows), how the call ended
    fclient,      \* one AMSClient: authenticated and _cache (cache key -> data)
    fserver,      \* the data the server holds: a version that every delete changes
    flast,        \* the last call made on the client: arguments, the cache before
                  \* it, outcome, and the call before it (prev)
    fcalls        \* calls made on the client so far

callVars == <<op, opt, clientArg, df>>
importVars == <<pc, op, opt, clientArg, df, df_clean, unresolved, verr, stage, todo,
                built, stageResults, results, calls, prompts, clientCache, err, ret,
                vin, vout>>
matchVars == <<match_in, match_out>>
optionVars == <<option_in, option_out>>
clientVars == <<env, persistent_client, held, caches, icall, last, ncalls>>
deleteVars == <<db_entries, del_call>>
editVars == <<edit_in, edit_out>>
uploadVars == <<up_in, up_call>>
processVars == <<proc_in, proc_call>>
fetchVars == <<fclient, fserver, flast, fcalls>>
laterVars == <<uploadVars, processVars, fetchVars>>
otherVars == <<matchVars, optionVars, clientVars, deleteVars, editVars, laterVars>>
vars == <<importVars, otherVars>>

\* nothing outside the import pipeline has been called
MatchPending ==
    [ state |-> "pending", value |-> [mapping_df |-> <<>>, failed_df |-> <<>>],
      err |-> [type |-> "none", msg |-> ""] ]
MatchIdle ==
    /\ match_in = [mapping_df |-> <<>>, dtype |-> "object", user_df |-> <<>>,
                   user_key |-> "none"]
    /\ match_out = MatchPending

NoOption == [interactive_mode |-> FALSE, cache |-> FALSE, id_col |-> "", table_fields |-> <<>>]
OptionPending == [state |-> "pending", option |-> NoOption, err |-> ""]
OptionIdle ==
    /\ option_in = [class |-> "none", interactive_mode |-> FALSE, cache |-> FALSE,
                    id_col |-> ""]
    /\ option_out = OptionPending

\* the validator on its own has not been given an input
ValIdle ==
    /\ vin = [df |-> [cols |-> {}, rows |-> <<>>], form |-> "", overwrite_existing |-> FALSE]
    /\ vout = "pending"

\* no client: None
NoClient == [ident |-> 0, url |-> "", username |-> "", authenticated |-> FALSE,
             has_session_header |-> FALSE]
NoCreds == [username |-> "", password |-> ""]
NoCall == [fn |-> "none", url |-> "", cred |-> NoCreds, cache |-> FALSE, given |-> FALSE,
           response |-> "", before |-> NoClient, outcome |-> "none", client |-> NoClient,
           err |-> [type |-> "none", msg |-> ""]]
NoImportCall == [active |-> FALSE, client |-> NoClient, cache |-> FALSE, requests |-> 0]
ClientIdle ==
    /\ env = NoCreds
    /\ persistent_client = NoClient
    /\ held = NoClient
    /\ caches = <<>>
    /\ icall = NoImportCall
    /\ last = NoCall
    /\ ncalls = 0

NoDeleteCall ==
    [ pc |-> "idle", interactive_mode |-> FALSE, count |-> 0, offset |-> 0,
      all_entry_ids |-> <<>>, total_deleted |-> 0, failed_deletions |-> <<>>,
      attempts |-> <<>>, err |-> [type |-> "none", msg |-> ""] ]
DeleteIdle ==
    /\ db_entries = {}
    /\ del_call = NoDeleteCall

EditPending ==
    [ state |-> "pending", value |-> <<>>, attempted |-> {}, saved |-> {},
      err |-> [type |-> "none", msg |-> ""] ]
EditIdle ==
    /\ edit_in = [mapping_df |-> <<>>, user_df |-> <<>>, user_key |-> "none"]
    /\ edit_out = EditPending

NoUploadCall ==
    [ pc |-> "idle", pos |-> 0, results |-> <<>>, posts |-> <<>>,
      err |-> [type |-> "none", msg |-> ""] ]
UploadIdle ==
    /\ up_in = [files |-> <<>>, has_skype_name |-> FALSE]
    /\ up_call = NoUploadCall

NoProcessCall ==
    [ pc |-> "idle", pos |-> 0, user_key |-> "", bound |-> FALSE,
      failed_operations |-> <<>>, failed_rows |-> <<>>, user_ids |-> <<>>,
      attempts |-> <<>>, err |-> [type |-> "none", msg |-> ""] ]
ProcessIdle ==
    /\ proc_in = <<>>
    /\ proc_call = NoProcessCall

NoData == [k |-> "none", v |-> 0]
NoFetchCall ==
    [ fn |-> "none", endpoint |-> <<>>, payload |-> <<>>, cache |-> FALSE,
      response |-> "", before |-> {}, sent |-> FALSE, outcome |-> "none",
      data |-> NoData, prev |-> [fn |-> "none", outcome |-> "none", before |-> {}] ]
FetchIdle ==
    /\ fclient = [authenticated |-> FALSE, cache |-> {}]
    /\ fserver = 0
    /\ flast = NoFetchCall
    /\ fcalls = 0

LaterIdle == UploadIdle /\ ProcessIdle /\ FetchIdle
OtherIdle == MatchIdle /\ OptionIdle /\ ClientIdle /\ DeleteIdle /\ EditIdle /\ LaterIdle

\* what an operation on its own leaves alone
matchFrame == <<importVars, optionVars, clientVars, deleteVars, editVars, laterVars>>
optionFrame == <<importVars, matchVars, clientVars, deleteVars, editVars, laterVars>>
clientFrame == <<importVars, matchVars, optionVars, deleteVars, editVars, laterVars>>
deleteFrame == <<importVars, matchVars, optionVars, clientVars, editVars, laterVars>>
editFrame == <<importVars, matchVars, optionVars, clientVars, deleteVars, laterVars>>
earlierVars == <<importVars, matchVars, optionVars, clientVars, deleteVars, editVars>>
uploadFrame == <<earlierVars, processVars, fetchVars>>
processFrame == <<earlierVars, uploadVars, fetchVars>>
fetchFrame == <<earlierVars, uploadVars, processVars>>

PipelineInit ==
    /\ pc = "idle"
    /\ op = "insert"
    /\ opt = [interactive_mode |-> FALSE, cache |-> TRUE, id_col |-> "user_id"]
    /\ clientArg = "client"
    /\ df = EmptyDf
    /\ df_clean = EmptyDf
    /\ unresolved = <<>>
    /\ verr = "pending"
    /\ stage = "none"
    /\ todo = <<>>
    /\ built = <<>>
    /\ stageResults = <<>>
    /\ results = <<>>
    /\ calls = <<>>
    /\ prompts = <<>>
    /\ clientCache = {}
    /\ err = NoError
    /\ ret = "pending"

\* the client the caller passes, and one left by get_client(cache=True)
GivenClient ==
    [ident |-> 1, url |-> "https://a/site", username |-> "u", authenticated |-> TRUE,
     has_session_header |-> TRUE]
PersistedClient ==
    [ident |-> 2, url |-> "https://a/site", username |-> "u", authenticated |-> TRUE,
     has_session_header |-> TRUE]

\* utils.persistent_client when the import is called: None, or the client an
\* earlier get_client(cache=True) of the process left there
Init ==
    /\ PipelineInit
    /\ vin = NoValInput
    /\ vout = "pending"
    /\ MatchIdle /\ OptionIdle /\ DeleteIdle /\ EditIdle /\ LaterIdle
    /\ env = NoCreds
    /\ persistent_client \in {NoClient, PersistedClient}
    /\ held = NoClient
    /\ caches = <<>>
    /\ icall = NoImportCall
    /\ last = NoCall
    /\ ncalls = 0

Raise(e) ==
    /\ pc' = "raised"
    /\ err' = e

(***************************************************************************)
(* utils.get_client and AMSClient.__init__: the client an import entry     *)
(* point works with (import_.py line 45).                                  *)
(***************************************************************************)
NoCredentialsMsg ==
    "No valid credentials provided and no cached client available. Supply 'username' and 'password'."

\* AMSClient.login: what it raises on a response that is no valid login: a
\* status 401, another status that is not 200, a 200 without session-header,
\* a 200 whose body is an rpc exception without detailMessage; with no
\* answer at all session.post raises and the requests exception propagates
LoginError(response) ==
    CASE response = "401" -> AMSError("Invalid URL or login credentials.")
      [] response = "500" -> AMSError("Login failed with status 500.")
      [] response = "noheader" -> AMSError("No session header received from server.")
      [] response = "rpc_exception" -> AMSError("Login failed: Unknown login error")
      [] OTHER -> [type |-> "ConnectionError", msg |-> ""]

\* AMSClient(url, username, password): credentials fall back to the
\* environment; with a username and a password the constructor logs in
AMSClientNew(environ, url, username, password, response, ident) ==
    LET u == IF username # "" THEN username ELSE environ.username
        p == IF password # "" THEN password ELSE environ.password
    IN  IF u # "" /\ p # ""
        THEN IF response = "200"
             THEN [outcome |-> "built", err |-> NoError,
                   client |-> [ident |-> ident, url |-> url, username |-> u,
                               authenticated |-> TRUE, has_session_header |-> TRUE]]
             ELSE [outcome |-> "raised", err |-> LoginError(response), client |-> NoClient]
        ELSE [outcome |-> "built", err |-> NoError,
              client |-> [ident |-> ident, url |-> url, username |-> u,
                          authenticated |-> FALSE, has_session_header |-> FALSE]]

\* get_client(url, username, password, cache): what it returns or raises and
\* the value it leaves in persistent_client
GetClientFn(persistent, environ, url, username, password, cache, response, ident) ==
    IF cache /\ persistent.ident # 0 /\ persistent.authenticated
    THEN [outcome |-> "returned", client |-> persistent, persistent |-> persistent,
          created |-> FALSE, err |-> NoError]
    ELSE IF username = "" \/ password = ""
    THEN [outcome |-> "raised", client |-> NoClient, persistent |-> persistent,
          created |-> FALSE, err |-> AMSError(NoCredentialsMsg)]
    ELSE LET c == AMSClientNew(environ, url, username, password, response, ident)
         IN  IF c.outcome = "raised"
             THEN [outcome |-> "raised", client |-> NoClient, persistent |-> persistent,
                   created |-> FALSE, err |-> c.err]
             ELSE [outcome |-> "returned", client |-> c.client,
                   persistent |-> IF cache THEN c.client ELSE NoClient,
                   created |-> TRUE, err |-> NoError]

\* client = client or get_client(url, username, password, cache=option.cache, ...)
ImportClient(given, persistent, environ, url, username, password, cache, response, ident) ==
    IF given.ident # 0
    THEN [outcome |-> "returned", client |-> given, persistent |-> persistent,
          created |-> FALSE, err |-> NoError]
    ELSE GetClientFn(persistent, environ, url, username, password, cache, response, ident)

(***************************************************************************)
(* A call of insert_event_data, update_event_data, upsert_event_data or    *)
(* upsert_profile_data with its arguments.                                 *)
(***************************************************************************)
Call ==
    /\ pc = "idle"
    /\ \E o \in Ops, im \in BOOLEAN, ch \in BOOLEAN, ic \in IdCols,
          hasId \in BOOLEAN, hasEv \in BOOLEAN, ca \in ClientArgs, ks \in KindSeqs :
          /\ op' = o
          /\ opt' = [interactive_mode |-> im, cache |-> ch, id_col |-> ic]
          /\ clientArg' = ca
          /\ df' = MkDf(ks, ic, hasId, hasEv)
    /\ pc' = "get_client"
    /\ UNCHANGED <<df_clean, unresolved, verr, stage, todo, built, stageResults,
                   results, calls, prompts, clientCache, err, ret, vin, vout>>
    /\ UNCHANGED otherVars

(***************************************************************************)
(* client = client or get_client(url, username, password,                  *)
(* cache=option.cache, ...): the caller's client is used as it is; without *)
(* one get_client returns the persistent client if option.cache is set and *)
(* there is an authenticated one, raises without credentials, and else     *)
(* builds an AMSClient, whose constructor logs in and raises what the      *)
(* login raises.                                                           *)
(***************************************************************************)
\* what the server answers to the login of an import
ImportLoginResponses == {"200", "401", "500", "noheader", "rpc_exception", "transport"}

GetClient ==
    /\ pc = "get_client"
    /\ \E response \in ImportLoginResponses :
          LET given == IF clientArg = "client" THEN GivenClient ELSE NoClient
              cred == IF clientArg = "credentials" THEN "u" ELSE ""
              pw == IF clientArg = "credentials" THEN "pw" ELSE ""
              r == ImportClient(given, persistent_client, env, "https://a/site", cred, pw,
                                opt.cache, response, 3)
              \* AMSClient.__init__ was reached and sent user/loginUser
              logs_in == given.ident = 0
                         /\ ~(opt.cache /\ persistent_client.ident # 0
                                        /\ persistent_client.authenticated)
                         /\ cred # "" /\ pw # ""
          IN  /\ calls' = IF logs_in THEN Append(calls, "login") ELSE calls
              /\ persistent_client' = r.persistent
              /\ IF r.outcome = "returned"
                 THEN pc' = "map" /\ UNCHANGED err
                 ELSE Raise(r.err)
    /\ UNCHANGED <<callVars, df_clean, unresolved, verr, stage, todo, built,
                   stageResults, results, prompts, clientCache, ret, vin, vout>>
    /\ UNCHANGED <<matchVars, optionVars, deleteVars, editVars, laterVars>>
    /\ UNCHANGED <<env, held, caches, icall, last, ncalls>>

(***************************************************************************)
(* df_clean = _clean_import_df(df);                                        *)
(* df_clean = _map_id_col_to_user_id(df_clean, option.id_col, client), at  *)
(* line 49, before _validate_import_df at line 51.  The resolver is given  *)
(* the client and no option; as the specification describes it, user_id    *)
(* passes through and any other column costs one directory fetch, sent     *)
(* with the default cache=True of _fetch.  For a frame that lacks the      *)
(* column the specification does not say what the resolver does: it raises *)
(* KeyError before any request, or fetches and matches no record.          *)
(***************************************************************************)
MapIds ==
    /\ pc = "map"
    /\ \/ /\ opt.id_col = "user_id"
          /\ df_clean' = CleanImportDf(df)
          /\ pc' = "validate"
          /\ UNCHANGED <<unresolved, calls, clientCache, err>>
       \/ /\ opt.id_col # "user_id"
          /\ "ident" \notin df.cols
          /\ Raise([type |-> "KeyError", msg |-> opt.id_col])
          /\ UNCHANGED <<df_clean, unresolved, calls, clientCache>>
       \/ /\ opt.id_col # "user_id"
          /\ \E resp \in Responses :
                LET r == Fetch(clientCache, <<"usersearch">>, TRUE, resp)
                IN  /\ calls' = IF r.sent THEN Append(calls, "directory") ELSE calls
                    /\ clientCache' = r.cache
                    /\ IF r.outcome = "data"
                       THEN /\ df_clean' = MapIdColToUserId(CleanImportDf(df), Directory)
                            /\ unresolved' = Unresolved(CleanImportDf(df), Directory)
                            /\ pc' = "validate"
                            /\ UNCHANGED err
                       ELSE /\ Raise([type |-> r.outcome, msg |-> "usersearch"])
                            /\ UNCHANGED <<df_clean, unresolved>>
    /\ UNCHANGED <<callVars, verr, stage, todo, built, stageResults, results,
                   prompts, ret, vin, vout>>
    /\ UNCHANGED otherVars

\* _validate_import_df(df_clean, form, overwrite_existing, table_fields)
Validate ==
    /\ pc = "validate"
    /\ verr' = ValidateImportDf(df_clean, "F", ValidateOverwrite(op))
    /\ IF verr' = "ok"
       THEN pc' = "build" /\ UNCHANGED err
       ELSE Raise(AMSError(verr'))
    /\ UNCHANGED <<callVars, df_clean, unresolved, stage, todo, built, stageResults,
                   results, calls, prompts, clientCache, ret, vin, vout>>
    /\ UNCHANGED otherVars

(***************************************************************************)
(* Entering a stage: build its payloads, then ask or dispatch.             *)
(***************************************************************************)
EnterStage(stg) ==
    IF stg = "none"
    THEN /\ pc' = "finish"
         /\ stage' = "none"
         /\ todo' = <<>>
         /\ UNCHANGED built
    ELSE LET payloads == StagePayloads(op, stg, df_clean)
         IN  /\ stage' = stg
             /\ todo' = payloads
             /\ built' = Append(built, [action |-> StageAction(op, stg),
                                        overwrite_existing |-> StageOverwrite(stg),
                                        payloads |-> payloads])
             /\ pc' = IF NeedsConfirm(op, stg, opt.interactive_mode)
                      THEN "confirm" ELSE "dispatch"

\* after validation; upsert first reads df_clean["event_id"]
Build ==
    /\ pc = "build"
    /\ IF op = "upsert" /\ "event_id" \notin df_clean.cols
       THEN /\ Raise([type |-> "KeyError", msg |-> "event_id"])
            /\ UNCHANGED <<stage, todo, built>>
       ELSE /\ EnterStage(FirstStage(op, df_clean))
            /\ UNCHANGED err
    /\ UNCHANGED <<callVars, df_clean, unresolved, verr, stageResults, results,
                   calls, prompts, clientCache, ret, vin, vout>>
    /\ UNCHANGED otherVars

\* confirm = input("Are you sure ...? (y/n): ").strip().lower()
Confirm ==
    /\ pc = "confirm"
    /\ \E answer \in Answers :
          /\ prompts' = Append(prompts, [stage |-> stage, answer |-> answer])
          /\ IF Confirmed(answer)
             THEN pc' = "dispatch" /\ UNCHANGED err
             ELSE Raise(AMSError(CancelMsg(op)))
    /\ UNCHANGED <<callVars, df_clean, unresolved, verr, stage, todo, built,
                   stageResults, results, calls, clientCache, ret, vin, vout>>
    /\ UNCHANGED otherVars

(***************************************************************************)
(* results = _fetch_import_payloads(client, payloads, action,              *)
(* interactive_mode, option.cache): the next payload of the stage goes     *)
(* through client._fetch.  When _fetch raises, the specification has the   *)
(* failure recorded for the payload and the loop go on; the docstrings of  *)
(* the entry points have AMSError raised when the API request fails, and   *)
(* no entry point catches it (lines 67, 135, 213, 231, 298).  Both are     *)
(* outcomes of a failed request.  After the last payload the stage's       *)
(* results are added and the next stage starts.                            *)
(***************************************************************************)
DispatchOne ==
    /\ pc = "dispatch"
    /\ todo # <<>>
    /\ \E resp \in Responses, propagates \in BOOLEAN :
          LET payload == Head(todo)
              action == StageAction(op, stage)
              r == Fetch(clientCache, <<action, payload>>, opt.cache, resp)
              sofar == Append(stageResults, Outcome(action, payload, r))
          IN  /\ calls' = IF r.sent THEN Append(calls, action) ELSE calls
              /\ clientCache' = r.cache
              /\ IF r.outcome # "data" /\ propagates
                 THEN /\ Raise([type |-> r.outcome, msg |-> action])
                      /\ UNCHANGED <<stage, todo, built, stageResults, results>>
                 ELSE IF Tail(todo) # <<>>
                 THEN /\ todo' = Tail(todo)
                      /\ stageResults' = sofar
                      /\ UNCHANGED <<pc, stage, built, results, err>>
                 ELSE /\ stageResults' = <<>>
                      /\ results' = ExtendResults(results, sofar)
                      /\ EnterStage(NextStage(op, stage, df_clean))
                      /\ UNCHANGED err
    /\ UNCHANGED <<callVars, df_clean, unresolved, verr, prompts, ret, vin, vout>>
    /\ UNCHANGED otherVars

\* _print_import_status(results, ...); the entry point returns None
Finish ==
    /\ pc = "finish"
    /\ pc' = "done"
    /\ ret' = "None"
    /\ UNCHANGED <<callVars, df_clean, unresolved, verr, stage, todo, built,
                   stageResults, results, calls, prompts, clientCache, err, vin, vout>>
    /\ UNCHANGED otherVars

Next == Call \/ GetClient \/ MapIds \/ Validate \/ Build \/ Confirm \/ DispatchOne \/ Finish

Spec == Init /\ [][Next]_vars

(***************************************************************************)
(* _validate_import_df on its own, on one drawn input.                     *)
(***************************************************************************)
ValInit ==
    /\ PipelineInit
    /\ vin \in ValInputs
    /\ vout = "pending"
    /\ OtherIdle

RunValidate ==
    /\ vout = "pending"
    /\ vout' = ValidateImportDf(vin.df, vin.form, vin.overwrite_existing)
    /\ UNCHANGED <<pc, op, opt, clientArg, df, df_clean, unresolved, verr, stage, todo,
                   built, stageResults, results, calls, prompts, clientCache, err,
                   ret, vin>>
    /\ UNCHANGED otherVars

ValNext == RunValidate

SpecValidate == ValInit /\ [][ValNext]_vars

(***************************************************************************)
(* Vocabulary of the properties.                                           *)
(***************************************************************************)
Range(f) == {f[i] : i \in DOMAIN f}
ImportActions == {"insert", "update", "upsert"}

\* no import payload has gone through client._fetch in this call
NoDispatch ==
    /\ Range(calls) \cap ImportActions = {}
    /\ stageResults = <<>>
    /\ results = <<>>

\* answers that are neither "y" nor "yes" once trimmed and lower-cased
DeclineAnswers == { <<"n">>, <<>>, <<"y", "e", "p">> }

\* the wire entries built for action a that come from the record with index i
EntriesOf(a, i) ==
    { <<b, p, e>> \in (1..Len(built)) \X (1..MaxRecs + 2) \X (1..MaxRecs + 2) :
        /\ built[b].action = a
        /\ p <= Len(built[b].payloads)
        /\ e <= Len(built[b].payloads[p].events)
        /\ built[b].payloads[p].events[e].idx = i }

EntryAt(t) == built[t[1]].payloads[t[2]].events[t[3]]

ValidationFailed == verr \notin {"pending", "ok"}

(***************************************************************************)
(* C1: when the user declines the confirmation (an answer other than y or  *)
(* yes after trimming and lower-casing), update, upsert and profile upsert *)
(* raise the cancellation AMSError and no import payload has been          *)
(* dispatched in the call, nor has an insert payload been built.           *)
(***************************************************************************)
C1_DeclineCancels ==
    \A i \in 1..Len(prompts) :
        prompts[i].answer \in DeclineAnswers =>
            /\ pc = "raised"
            /\ err = AMSError(CancelMsg(op))
            /\ NoDispatch
            /\ \A b \in 1..Len(built) : built[b].action # "insert"

C1_Witness ==
    /\ op = "upsert"
    /\ pc = "raised"
    /\ Len(prompts) = 1
    /\ prompts[1].answer = <<"y", "e", "p">>
    /\ ~DfEmpty(InsertsDf(df_clean))

(***************************************************************************)
(* C2: when validation fails, no user-directory fetch and no payload       *)
(* dispatch has preceded the validation error.                             *)
(***************************************************************************)
C2_NoNetworkBeforeValidationError ==
    ValidationFailed => /\ "directory" \notin Range(calls)
                        /\ NoDispatch

(***************************************************************************)
(* C3: upsert puts every record with a non-null event_id in exactly one    *)
(* update payload entry, carrying existingEventId, and every record with a *)
(* null event_id in exactly one insert payload entry, without              *)
(* existingEventId; no record is in both; an empty subset produces no      *)
(* payload and no dispatch.                                                *)
(***************************************************************************)
C3_UpsertPartition ==
    (op = "upsert" /\ pc \in {"finish", "done"}) =>
        /\ \A i \in 1..Len(df_clean.rows) :
              LET r == df_clean.rows[i]
                  upd == EntriesOf("update", r.idx)
                  ins == EntriesOf("insert", r.idx)
              IN  IF notna(r.event_id)
                  THEN /\ Cardinality(upd) = 1
                       /\ ins = {}
                       /\ \A t \in upd : EntryAt(t).existingEventId = r.event_id
                  ELSE /\ Cardinality(ins) = 1
                       /\ upd = {}
                       /\ \A t \in ins : EntryAt(t).existingEventId = Absent
        /\ \A b \in 1..Len(built) :
              built[b].overwrite_existing = (built[b].action = "update")
        /\ (\A i \in 1..Len(df_clean.rows) : isna(df_clean.rows[i].event_id)) =>
              /\ \A b \in 1..Len(built) : built[b].action # "update"
              /\ "update" \notin Range(calls)
        /\ (\A i \in 1..Len(df_clean.rows) : notna(df_clean.rows[i].event_id)) =>
              /\ \A b \in 1..Len(built) : built[b].action # "insert"
              /\ "insert" \notin Range(calls)

C3_Witness ==
    /\ op = "upsert"
    /\ pc = "done"
    /\ Len(built) = 2
    /\ Len(df_clean.rows) = 2

(***************************************************************************)
(* C5 as stated: a record whose identifier matches no user does not abort  *)
(* the import; it is put in the failure list handed to the status report   *)
(* and the other records are dispatched.                                   *)
(***************************************************************************)
C5_UnresolvedDoesNotAbort ==
    unresolved # <<>> =>
        /\ ~(pc = "raised" /\ err = AMSError(EmptyMsg))
        /\ pc = "done" =>
              \A u \in 1..Len(unresolved) :
                  \E i \in 1..Len(results) :
                      ~results[i].ok /\ unresolved[u].idx \in Range(results[i].idxs)

(***************************************************************************)
(* C6: for a valid batch whose identifiers all resolve, insert, update and *)
(* upsert return a Summary (with succeeded + failed equal to attempted).   *)
(***************************************************************************)
C6_ReturnsSummary ==
    (pc = "done" /\ op \in ImportActions /\ unresolved = <<>>) =>
        ret \notin {"pending", "None"}

(***************************************************************************)
(* C7: insert never asks for confirmation; upsert asks at most once, only  *)
(* in interactive mode and with a non-empty update subset, for the update  *)
(* stage and never for the insert stage.                                   *)
(***************************************************************************)
C7_WhoIsAsked ==
    /\ op = "insert" => (prompts = <<>> /\ pc # "confirm")
    /\ op = "upsert" =>
          /\ pc = "confirm" => stage = "updates"
          /\ (prompts # <<>> \/ pc = "confirm") =>
                /\ opt.interactive_mode
                /\ ~DfEmpty(UpdatesDf(df_clean))
                /\ Len(prompts) <= 1
                /\ \A i \in 1..Len(prompts) : prompts[i].stage = "updates"

C7_Witness ==
    /\ op = "upsert"
    /\ pc = "done"
    /\ opt.interactive_mode
    /\ Len(prompts) = 1
    /\ "insert" \in Range(calls)

(***************************************************************************)
(* C8 as stated: in update mode a batch without an event_id column fails   *)
(* validation, before any payload is built or dispatched.                  *)
(***************************************************************************)
C8_UpdateNeedsEventIdColumn ==
    (op = "update" /\ verr # "pending" /\ "event_id" \notin df_clean.cols) =>
        /\ ValidationFailed
        /\ built = <<>>
        /\ NoDispatch

(***************************************************************************)
(* C9: for start_date and end_date alike, a cell that is present, not      *)
(* null, not empty and not a DD/MM/YYYY date makes validation fail; when   *)
(* every cell of a date column is an empty string or null, or the column   *)
(* is absent, that column raises nothing, whatever the other column holds. *)
(***************************************************************************)
MalformedDates == {BadDate, IsoDate, Feb29, Num(5)}
BenignDates == {NaN, EmptyStr}

C9_DateValidation ==
    vout # "pending" =>
        /\ \A col \in {"start_date", "end_date"} :
              /\ (col \in vin.df.cols
                    /\ \E i \in 1..Len(vin.df.rows) : vin.df.rows[i][col] \in MalformedDates)
                 => vout # "ok"
              /\ (col \notin vin.df.cols
                    \/ \A i \in 1..Len(vin.df.rows) : vin.df.rows[i][col] \in BenignDates)
                 => vout \notin {MustBeStringsMsg(col), DateFormatMsg(col)}
        /\ (/\ vin \in DateInputs
            /\ vin.df.rows # <<>>
            /\ \A col \in {"start_date", "end_date"} :
                  col \in vin.df.cols =>
                     \A i \in 1..Len(vin.df.rows) : vin.df.rows[i][col] \in BenignDates)
           => vout = "ok"
        /\ (/\ vin \in DateInputs
            /\ "start_date" \in vin.df.cols => 
                  \A i \in 1..Len(vin.df.rows) :
                     vin.df.rows[i].start_date \in BenignDates \cup {GoodDate, ShortDate}
            /\ "end_date" \in vin.df.cols
            /\ \E i \in 1..Len(vin.df.rows) : vin.df.rows[i].end_date = Feb29)
           => vout = DateFormatMsg("end_date")

C9_Witness ==
    /\ vout = DateFormatMsg("end_date")
    /\ Len(vin.df.rows) = 2
    /\ vin.df.rows[1].start_date = EmptyStr
    /\ vin.df.rows[2].start_date = NaN
    /\ vin.df.rows[1].end_date = NaN
    /\ vin.df.rows[2].end_date = Feb29

(***************************************************************************)
(* C10: validation of a batch without rows raises the empty-batch error,   *)
(* whatever its columns, the form and the mode; the identifier, date and   *)
(* time errors are only raised for a batch that has rows.                  *)
(***************************************************************************)
C10_EmptyBatchFirst ==
    vout # "pending" =>
        /\ vin.df.rows = <<>> => vout = EmptyMsg
        /\ vout \notin {"ok", EmptyMsg} => vin.df.rows # <<>>

C10_Witness ==
    /\ vout = EmptyMsg
    /\ vin.df.rows = <<>>
    /\ "user_id" \notin vin.df.cols
    /\ vin.form = ""
    /\ vin.overwrite_existing

(***************************************************************************)
(* user_process._match_users_to_mapping: the left merge of the mapping     *)
(* frame with the user directory and its split into matched rows and       *)
(* failures.                                                               *)
(***************************************************************************)
\* most rows of a mapping frame, most users of a directory
MaxMatchRecs == 2
MaxDirUsers == 2

\* Python None as a cell
None == [k |-> "none", s |-> <<>>, n |-> 0]

\* the users /api/v2/person/get may return
DirUsers ==
    { [ id |-> 101, username |-> <<"n", "e", "y">>, emailAddress |-> <<"n", "@", "x">>,
        firstName |-> <<"N", "e", "y">>, lastName |-> <<"P", "o", "e">>,
        uuid |-> <<"u", "1">> ],
      [ id |-> 102, username |-> <<"n", "e", "p">>, emailAddress |-> <<"p", "@", "x">>,
        firstName |-> <<" ", "n", "e", "y">>, lastName |-> <<"P", "O", "E", " ">>,
        uuid |-> <<"u", "2">> ],
      [ id |-> 103, username |-> <<"N", "e", "y">>, emailAddress |-> <<"s", "@", "x">>,
        firstName |-> <<"S", "y">>, lastName |-> <<"Y", "e", "o">>,
        uuid |-> <<"u", "3">> ] }

\* the identifier cells a mapping frame may hold
MatchCells ==
    { Str(<<"n", "e", "y">>), Str(<<"N", "e", "y">>),
      Str(<<" ", "N", "E", "Y", " ", "P", "O", "E", " ">>),
      Str(<<"n", "e", "y", " ", " ", "p", "o", "e">>),
      Str(<<"s", "y", " ", "y", "e", "o">>),
      Str(<<"n", "@", "x">>), Str(<<"u", "2">>), Str(<<"z", "z">>), NaN }

UserKeys == {"username", "email", "about", "uuid"}

\* Series.str.strip().str.lower() on one cell: a cell that is no str gives NaN
StrStripLower(cell) == IF IsStr(cell) THEN Str(Lower(Strip(cell.s))) ELSE NaN

\* user_df["about"] = (firstName.str.strip() + " " + lastName.str.strip()).str.lower()
AboutKeyMutNoStrip(u) == Str(Lower(u.firstName \o <<" ">> \o u.lastName))
AboutKey(u) == Str(Lower(Strip(u.firstName) \o <<" ">> \o Strip(u.lastName)))

\* the cell of a directory user in key_column: "about", "emailAddress" for
\* email, else the column user_key names
UserKeyValue(u, user_key) ==
    CASE user_key = "about" -> AboutKey(u)
      [] user_key = "email" -> Str(u.emailAddress)
      [] user_key = "username" -> Str(u.username)
      [] user_key = "uuid" -> Str(u.uuid)

\* mapping_df[user_key] when the frames are merged: normalised for about only
MappingKey(cell, user_key) ==
    IF user_key = "about" THEN StrStripLower(cell) ELSE cell

\* the rows a left merge makes of one mapping row: one per directory row with
\* an equal key, in directory order, or one row with a null user_id
MergeRow(i, key, user_df, user_key) ==
    LET hits == SelectSeq(user_df, LAMBDA u : UserKeyValue(u, user_key) = key)
    IN  IF hits = <<>>
        THEN << [idx |-> i, user_key |-> key, user_id |-> NaN] >>
        ELSE [j \in 1..Len(hits) |->
                 [idx |-> i, user_key |-> key, user_id |-> Num(hits[j].id)]]

\* mapping_df.merge(user_df[["id", key_column]], how="left"), rows i..Len,
\* for a key column of dtype object
RECURSIVE LeftMerge(_, _, _, _)
LeftMerge(cells, i, user_df, user_key) ==
    IF i > Len(cells) THEN <<>>
    ELSE MergeRow(i, MappingKey(cells[i], user_key), user_df, user_key)
         \o LeftMerge(cells, i + 1, user_df, user_key)

NotFoundReason(user_key) == <<"User not found for ", user_key, " value">>

\* the dtype pandas gives mapping_df[user_key]: object when a cell is a str;
\* a column of NaN only, and a column without rows, is float64 unless the
\* caller or the pandas release makes it object
ColumnDtypes(cells) ==
    IF \A i \in 1..Len(cells) : isna(cells[i])
    THEN {"float64", "object"}
    ELSE {"object"}

\* what a float64 key column makes pandas raise: line 140 for about (the .str
\* accessor, which looks at the dtype alone), line 148 for the other keys
\* (merge on float64 and object)
MatchDtypeError(user_key) ==
    IF user_key = "about"
    THEN [type |-> "AttributeError",
          msg |-> "Can only use .str accessor with string values!"]
    ELSE [type |-> "ValueError",
          msg |-> "You are trying to merge on float64 and object columns"]

MatchUsersToMapping(cells, dtype, user_df, user_key) ==
    LET merged == LeftMerge(cells, 1, user_df, user_key)
        unmapped == SelectSeq(merged, LAMBDA r : isna(r.user_id))
        \* merge compares the dtypes of the keys unless exactly one side has no rows
        dtypes_compared == ~(   (cells # <<>> /\ user_df = <<>>)
                             \/ (cells = <<>> /\ user_df # <<>>))
    IN  IF dtype = "float64" /\ (user_key = "about" \/ dtypes_compared)
        THEN [ outcome |-> "raised", err |-> MatchDtypeError(user_key),
               mapping_df |-> <<>>, failed_df |-> <<>> ]
        ELSE [ outcome |-> "returned", err |-> NoError,
               mapping_df |-> IF unmapped # <<>>
                              THEN SelectSeq(merged, LAMBDA r : notna(r.user_id))
                              ELSE merged,
               failed_df |-> [j \in 1..Len(unmapped) |->
                                 [ user_id |-> None, user_key |-> unmapped[j].user_key,
                                   reason |-> NotFoundReason(user_key) ]] ]

\* directories: up to MaxDirUsers different users, in any order
Directories ==
    { d \in UNION { [1..n -> DirUsers] : n \in 1..MaxDirUsers } :
        \A i, j \in 1..Len(d) : i # j => d[i] # d[j] }

MatchInputs ==
    UNION { { [mapping_df |-> cells, dtype |-> t, user_df |-> d, user_key |-> k] :
                t \in ColumnDtypes(cells), d \in Directories, k \in UserKeys } :
            cells \in UNION { [1..n -> MatchCells] : n \in 0..MaxMatchRecs } }

MatchInit ==
    /\ PipelineInit
    /\ ValIdle
    /\ LaterIdle
    /\ OptionIdle
    /\ ClientIdle
    /\ DeleteIdle
    /\ EditIdle
    /\ match_in \in MatchInputs
    /\ match_out = MatchPending

RunMatch ==
    /\ match_in.user_key \in UserKeys
    /\ match_out.state = "pending"
    /\ LET r == MatchUsersToMapping(match_in.mapping_df, match_in.dtype,
                                    match_in.user_df, match_in.user_key)
       IN  match_out' = [state |-> r.outcome,
                         value |-> [mapping_df |-> r.mapping_df, failed_df |-> r.failed_df],
                         err |-> r.err]
    /\ UNCHANGED <<matchFrame, match_in>>

MatchNext == RunMatch

SpecMatch == MatchInit /\ [][MatchNext]_vars

\* the identifier of input record i equals the key of directory user u
KeyEquals(i, u) ==
    UserKeyValue(u, match_in.user_key)
        = MappingKey(match_in.mapping_df[i], match_in.user_key)

HasUser(i) == \E u \in Range(match_in.user_df) : KeyEquals(i, u)

\* the input records without a directory user, in input order
Unmatched ==
    SelectSeq([i \in 1..Len(match_in.mapping_df) |-> i], LAMBDA i : ~HasUser(i))

(***************************************************************************)
(* C11: _match_users_to_mapping splits its input without loss or overlap:  *)
(* every record whose identifier equals the key of a directory user is     *)
(* returned with that user's id, every other record is in the failure list *)
(* with its identifier value and the reason "User not found for <column>   *)
(* value"; no record is in both outputs and none is in neither.            *)
(***************************************************************************)
C11_MatchSplits ==
    match_out.state # "pending" =>
        /\ match_out.state = "returned"
        /\ \A i \in 1..Len(match_in.mapping_df) :
              HasUser(i) <=> \E r \in Range(match_out.value.mapping_df) : r.idx = i
        /\ \A r \in Range(match_out.value.mapping_df) :
              \E u \in Range(match_in.user_df) :
                  KeyEquals(r.idx, u) /\ r.user_id = Num(u.id)
        /\ match_out.value.failed_df =
              [j \in 1..Len(Unmatched) |->
                  [ user_id |-> None,
                    user_key |-> MappingKey(match_in.mapping_df[Unmatched[j]],
                                            match_in.user_key),
                    reason |-> <<"User not found for ", match_in.user_key, " value">> ]]

\* the rows of the matched output that come from input record i
RowsOf(i) == SelectSeq(match_out.value.mapping_df, LAMBDA r : r.idx = i)

\* the directory users whose about string is the one record i holds
SameAbout(i) == SelectSeq(match_in.user_df, LAMBDA u : KeyEquals(i, u))

(***************************************************************************)
(* C12: when two directory users share the same about string, a record     *)
(* with that about value resolves to exactly one user, the first directory *)
(* entry encountered: the matched output holds exactly one row for it.     *)
(***************************************************************************)
C12_AboutTieTakesFirst ==
    (match_out.state = "returned" /\ match_in.user_key = "about") =>
        \A i \in 1..Len(match_in.mapping_df) :
            Len(SameAbout(i)) >= 2 =>
                /\ Len(RowsOf(i)) = 1
                /\ RowsOf(i)[1].user_id = Num(SameAbout(i)[1].id)

(***************************************************************************)
(* C13: for the about identifier, a record matches a directory user        *)
(* exactly when the record's value, trimmed and lower-cased, equals the    *)
(* user's first name and last name, each trimmed, joined by one space and  *)
(* lower-cased.                                                            *)
(***************************************************************************)
C13_AboutMatching ==
    (match_out.state # "pending" /\ match_in.user_key = "about") =>
        \A i \in 1..Len(match_in.mapping_df) : \A u \in Range(match_in.user_df) :
            (\E r \in Range(match_out.value.mapping_df) :
                r.idx = i /\ r.user_id = Num(u.id))
            <=> /\ IsStr(match_in.mapping_df[i])
                /\ Lower(Strip(match_in.mapping_df[i].s))
                     = Lower(Strip(u.firstName) \o <<" ">> \o Strip(u.lastName))

C13_Witness ==
    /\ match_out.state = "returned"
    /\ match_in.user_key = "about"
    /\ Len(match_in.mapping_df) = 2
    /\ match_in.mapping_df[1] = Str(<<" ", "N", "E", "Y", " ", "P", "O", "E", " ">>)
    /\ match_in.mapping_df[2] = Str(<<"n", "e", "y", " ", " ", "p", "o", "e">>)
    /\ Len(match_in.user_df) = 1
    /\ match_in.user_df[1].id = 102
    /\ Len(match_out.value.mapping_df) = 1
    /\ match_out.value.mapping_df[1].user_id = Num(102)
    /\ Len(match_out.value.failed_df) = 1

(***************************************************************************)
(* import_option: the constructors of InsertEventOption,                   *)
(* UpdateEventOption, UpsertEventOption and UpsertProfileOption.           *)
(***************************************************************************)
OptionClasses ==
    {"InsertEventOption", "UpdateEventOption", "UpsertEventOption", "UpsertProfileOption"}

\* the id_col values a caller may pass
IdColArgs == {"user_id", "about", "username", "email", "uuid", "name", ""}

\* if id_col not in ["user_id", "about", "username", "email"]
AllowedIdColsMutWithUuid == {"user_id", "about", "username", "email", "uuid"}
AllowedIdCols == {"user_id", "about", "username", "email"}

IdColMsg == "id_col must be 'user_id', 'about', 'username', or 'email'."

\* __init__ of the four classes.  The three event options take table_fields,
\* which is left None and becomes []; UpsertProfileOption has no such
\* parameter and sets no such attribute
OptionNew(class, interactive_mode, cache, id_col) ==
    IF id_col \notin AllowedIdCols
    THEN [state |-> "raised", option |-> NoOption, err |-> IdColMsg]
    ELSE IF class = "UpsertProfileOption"
    THEN [state |-> "built",
          option |-> [interactive_mode |-> interactive_mode, cache |-> cache,
                      id_col |-> id_col],
          err |-> ""]
    ELSE [state |-> "built",
          option |-> [interactive_mode |-> interactive_mode, cache |-> cache,
                      id_col |-> id_col, table_fields |-> <<>>],
          err |-> ""]

OptionInit ==
    /\ PipelineInit
    /\ ValIdle
    /\ LaterIdle
    /\ MatchIdle
    /\ ClientIdle
    /\ DeleteIdle
    /\ EditIdle
    /\ option_in \in [class : OptionClasses, interactive_mode : BOOLEAN,
                      cache : BOOLEAN, id_col : IdColArgs]
    /\ option_out = OptionPending

RunOption ==
    /\ option_in.class \in OptionClasses
    /\ option_out.state = "pending"
    /\ option_out' = OptionNew(option_in.class, option_in.interactive_mode,
                               option_in.cache, option_in.id_col)
    /\ UNCHANGED <<optionFrame, option_in>>

OptionNext == RunOption

SpecOption == OptionInit /\ [][OptionNext]_vars

(***************************************************************************)
(* C14 as stated: building the options of insert, update, upsert or        *)
(* profile upsert with id_col user_id, username, email, about or uuid      *)
(* succeeds.                                                               *)
(***************************************************************************)
C14_AcceptsFiveIdCols ==
    (option_out.state # "pending"
        /\ option_in.id_col \in {"user_id", "username", "email", "about", "uuid"})
    => option_out.state = "built"

(***************************************************************************)
(* C14 amended: building the options succeeds, and keeps id_col, for       *)
(* user_id, username, email and about; for uuid, as for any other value,   *)
(* the constructor raises ValueError.                                      *)
(***************************************************************************)
C14_AcceptsFourIdCols ==
    option_out.state # "pending" =>
        IF option_in.id_col \in {"user_id", "username", "email", "about"}
        THEN /\ option_out.state = "built"
             /\ option_out.option.id_col = option_in.id_col
        ELSE /\ option_out.state = "raised"
             /\ option_out.err = "id_col must be 'user_id', 'about', 'username', or 'email'."

C14_Witness ==
    /\ option_out.state = "raised"
    /\ option_in.id_col = "uuid"
    /\ option_in.class = "UpsertProfileOption"

(***************************************************************************)
(* utils.get_client and AMSClient.__init__, the client an import entry     *)
(* point works with (import_.py line 45), and login_.login.                *)
(***************************************************************************)
\* calls of get_client, an import or login in one run
MaxClientCalls == 3
\* requests one import call sends through its client
MaxImportRequests == 1

Urls == {"https://a/site", "https://b/site"}
\* username and password as passed: None is ""
CredArgs ==
    { NoCreds, [username |-> "u", password |-> "pw"],
      [username |-> "u", password |-> ""] }
EnvSet == [username |-> "envuser", password |-> "envpw"]
\* what the server answers to user/loginUser
LoginResponses == {"200", "401", "noheader"}
\* cache key of a request an import sends
RequestKeys == {"k1"}

\* login_.login: the AMSError of a failed login is caught and the function
\* ends without a return statement; a client that did not log in has no
\* session_header attribute
LoginFn(environ, url, username, password, response) ==
    LET c == AMSClientNew(environ, url, username, password, response, 0)
    IN  IF c.outcome = "raised" /\ c.err.type = "AMSError"
        THEN [outcome |-> "returned", value |-> "None", err |-> NoError]
        ELSE IF c.outcome = "raised"
        THEN [outcome |-> "raised", value |-> "", err |-> c.err]
        ELSE IF ~c.client.has_session_header
        THEN [outcome |-> "raised", value |-> "",
              err |-> [type |-> "AttributeError", msg |-> "session_header"]]
        ELSE [outcome |-> "returned", value |-> "login_object", err |-> NoError]

ClientInit ==
    /\ PipelineInit
    /\ ValIdle
    /\ LaterIdle
    /\ MatchIdle
    /\ OptionIdle
    /\ DeleteIdle
    /\ EditIdle
    /\ env \in {NoCreds, EnvSet}
    /\ persistent_client = NoClient
    /\ held = NoClient
    /\ caches = <<>>
    /\ icall = NoImportCall
    /\ last = NoCall
    /\ ncalls = 0

\* the caller calls get_client and keeps the client it returns
CallGetClient ==
    /\ ncalls < MaxClientCalls
    /\ ~icall.active
    /\ \E url \in Urls, cred \in CredArgs, cache \in BOOLEAN, response \in LoginResponses :
          LET r == GetClientFn(persistent_client, env, url, cred.username, cred.password,
                               cache, response, Len(caches) + 1)
          IN  /\ persistent_client' = r.persistent
              /\ held' = IF r.outcome = "returned" THEN r.client ELSE held
              /\ caches' = IF r.created THEN Append(caches, {}) ELSE caches
              /\ last' = [fn |-> "get_client", url |-> url, cred |-> cred, cache |-> cache,
                          given |-> FALSE, response |-> response,
                          before |-> persistent_client, outcome |-> r.outcome,
                          client |-> r.client, err |-> r.err]
    /\ ncalls' = ncalls + 1
    /\ UNCHANGED <<clientFrame, env, icall>>

\* an import entry point is called, with the caller's client or without one,
\* and gets the client it will work with
CallImport ==
    /\ ncalls < MaxClientCalls
    /\ ~icall.active
    /\ \E given \in {NoClient, held}, url \in Urls, cred \in CredArgs, cache \in BOOLEAN,
          response \in LoginResponses :
          LET r == ImportClient(given, persistent_client, env, url, cred.username,
                                cred.password, cache, response, Len(caches) + 1)
          IN  /\ persistent_client' = r.persistent
              /\ caches' = IF r.created THEN Append(caches, {}) ELSE caches
              /\ icall' = IF r.outcome = "returned"
                          THEN [active |-> TRUE, client |-> r.client, cache |-> cache,
                                requests |-> 0]
                          ELSE icall
              /\ last' = [fn |-> "import", url |-> url, cred |-> cred, cache |-> cache,
                          given |-> given.ident # 0, response |-> response,
                          before |-> persistent_client, outcome |-> r.outcome,
                          client |-> r.client, err |-> r.err]
    /\ ncalls' = ncalls + 1
    /\ UNCHANGED <<clientFrame, env, held>>

\* the import sends a request through its client: the directory request of
\* the resolver, which is handed no option (import_.py line 49) and sends it
\* with the default cache=True of _fetch, or the dispatch of a payload, sent
\* with cache=option.cache (import_.py line 67)
ImportRequest ==
    /\ icall.active
    /\ icall.requests < MaxImportRequests
    /\ \E key \in RequestKeys, kind \in {"directory", "dispatch"}, response \in Responses :
          LET use_cache == IF kind = "directory" THEN TRUE ELSE icall.cache
              r == Fetch(caches[icall.client.ident], key, use_cache, response)
          IN  caches' = [caches EXCEPT ![icall.client.ident] = r.cache]
    /\ icall' = [icall EXCEPT !.requests = @ + 1]
    /\ UNCHANGED <<clientFrame, env, persistent_client, held, last, ncalls>>

\* the import call ends
ImportReturn ==
    /\ icall.active
    /\ icall' = NoImportCall
    /\ UNCHANGED <<clientFrame, env, persistent_client, held, caches, last, ncalls>>

\* the caller calls login(url, username, password)
CallLogin ==
    /\ ncalls < MaxClientCalls
    /\ ~icall.active
    /\ \E url \in Urls, cred \in CredArgs, response \in LoginResponses :
          LET r == LoginFn(env, url, cred.username, cred.password, response)
          IN  last' = [fn |-> "login", url |-> url, cred |-> cred, cache |-> FALSE,
                       given |-> FALSE, response |-> response,
                       before |-> persistent_client,
                       outcome |-> IF r.outcome = "raised" THEN "raised" ELSE r.value,
                       client |-> NoClient, err |-> r.err]
    /\ ncalls' = ncalls + 1
    /\ UNCHANGED <<clientFrame, env, persistent_client, held, caches, icall>>

ClientNext == CallGetClient \/ CallImport \/ ImportRequest \/ ImportReturn \/ CallLogin

SpecClient == ClientInit /\ [][ClientNext]_vars

\* the step is taken by an import call: its start, a request or its end
ImportStep == (ncalls' = ncalls + 1 /\ last'.fn = "import") \/ icall.active

\* no entry leaves a response cache
CachesKept == \A i \in DOMAIN caches : caches[i] \subseteq caches'[i]

\* the credentials the last call runs with: arguments, else environment
LastUsername == IF last.cred.username # "" THEN last.cred.username ELSE env.username
LastPassword == IF last.cred.password # "" THEN last.cred.password ELSE env.password

(***************************************************************************)
(* C15: the cached client is keyed by configuration: a get_client call     *)
(* with cache=True returns the cached client only if it was created for    *)
(* the same url and credentials; a call with another url or user gets a    *)
(* client for its own configuration.                                       *)
(***************************************************************************)
C15_CachedClientKeyedByConfig ==
    (last.fn = "get_client" /\ last.cache /\ last.outcome = "returned") =>
        /\ last.client.url = last.url
        /\ last.cred.username # "" => last.client.username = last.cred.username

(***************************************************************************)
(* C16: an import call does not replace or clear persistent_client and     *)
(* does not clear the client's response cache, for either value of         *)
(* option.cache.                                                           *)
(***************************************************************************)
C16_ImportLeavesClientState ==
    [][ImportStep => (persistent_client' = persistent_client /\ CachesKept)]_vars

(***************************************************************************)
(* C17: with username and password None, no client passed and no cached    *)
(* client, an entry point authenticates with AMS_USERNAME and AMS_PASSWORD *)
(* when these are set, instead of failing for want of credentials.         *)
(***************************************************************************)
C17_EnvCredentialsUsed ==
    (last.fn = "import" /\ ~last.given /\ last.cred = NoCreds
        /\ last.before.ident = 0 /\ env = EnvSet)
    => \/ last.outcome = "returned" /\ last.client.username = env.username
       \/ last.outcome = "raised" /\ last.response # "200"
            /\ last.err = LoginError(last.response)

(***************************************************************************)
(* C20: login raises AMSError when authentication fails or credentials     *)
(* are missing: it never returns normally after a failed authentication.   *)
(***************************************************************************)
C20_LoginRaisesOnFailure ==
    (last.fn = "login"
        /\ (LastUsername = "" \/ LastPassword = "" \/ last.response # "200"))
    => (last.outcome = "raised" /\ last.err.type = "AMSError")

(***************************************************************************)
(* delete_all_database_entries: the paging loop over get_database and the  *)
(* deletion loop over delete_database_entry.                               *)
(***************************************************************************)
\* limit = 1000
PageLimit == 1000
\* the form holds up to MaxPages full pages of entries, and a few more
MaxPages == 2

\* how many entries the form may hold when the call starts
EntryCounts ==
    {p * PageLimit + d : p \in 0..MaxPages, d \in {0, 1, 2}} \cup {PageLimit - 1}

\* the entries whose deletion the server may refuse
FailCandidates == {1, 2}

\* the ids of the rows the server returns for (limit, offset): the entries in
\* id order, from row offset on, limit rows at most
DatabasePage(entries, limit, offset) ==
    LET n == Cardinality(entries)
        last_row == IF offset + limit < n THEN offset + limit ELSE n
        nth(k) == CHOOSE e \in entries : Cardinality({x \in entries : x < e}) = k - 1
    IN  IF entries = 1..n
        THEN [k \in 1..(IF last_row > offset THEN last_row - offset ELSE 0) |-> offset + k]
        ELSE [k \in 1..(IF last_row > offset THEN last_row - offset ELSE 0) |-> nth(offset + k)]

\* get_database returns (df, len(df)): the page and the number of its rows
GetDatabase(entries, limit, offset) ==
    LET page == DatabasePage(entries, limit, offset)
    IN  [df |-> page, total_row_count |-> Len(page)]

\* one turn of the for loop (lines 80-95) on entry_id: delete_database_entry
\* returns True, or raises and the id goes to failed_deletions
DeleteOneMutFailureAlsoCounted(acc, entry_id, failing) ==
    [ total_deleted |-> acc.total_deleted + 1,
      failed_deletions |-> IF entry_id \in failing
                           THEN Append(acc.failed_deletions, entry_id)
                           ELSE acc.failed_deletions,
      attempts |-> Append(acc.attempts, entry_id) ]
DeleteOne(acc, entry_id, failing) ==
    IF entry_id \in failing
    THEN [acc EXCEPT !.failed_deletions = Append(@, entry_id),
                     !.attempts = Append(@, entry_id)]
    ELSE [acc EXCEPT !.total_deleted = @ + 1, !.attempts = Append(@, entry_id)]

DeleteInit ==
    /\ PipelineInit
    /\ ValIdle
    /\ LaterIdle
    /\ MatchIdle
    /\ OptionIdle
    /\ ClientIdle
    /\ EditIdle
    /\ \E n \in EntryCounts, im \in BOOLEAN :
          /\ db_entries = 1..n
          /\ del_call = [NoDeleteCall EXCEPT !.pc = "fetch", !.interactive_mode = im,
                                             !.count = n]

\* one turn of the while True loop: a page is fetched; get_database may raise
FetchPage ==
    /\ del_call.pc = "fetch"
    /\ \E response \in Responses :
          IF response # "200"
          THEN del_call' = [del_call EXCEPT
                   !.pc = "raised",
                   !.err = [type |-> IF response = "transport"
                                     THEN "RequestException" ELSE "AMSError",
                            msg |-> "userdefineddatabase/findTableByDatabaseFormId"]]
          ELSE LET r == GetDatabase(db_entries, PageLimit, del_call.offset)
                   ids == del_call.all_entry_ids \o r.df
                   offset == del_call.offset + PageLimit
                   \* if df.empty: break; ...; if offset >= total_row_count: break
                   more == r.df # <<>> /\ offset < r.total_row_count
               IN  del_call' =
                     IF r.df = <<>>
                     THEN [del_call EXCEPT
                              !.pc = IF del_call.all_entry_ids = <<>> THEN "done" ELSE "delete"]
                     ELSE [del_call EXCEPT !.all_entry_ids = ids, !.offset = offset,
                                           !.pc = IF more THEN "fetch" ELSE "delete"]
    /\ UNCHANGED <<deleteFrame, db_entries>>

\* one turn of the for loop over all_entry_ids: delete_database_entry
\* returns True or raises; an entry whose deletion raises stays on the server
DeleteEntry ==
    /\ del_call.pc = "delete"
    /\ Len(del_call.attempts) < Len(del_call.all_entry_ids)
    /\ LET entry_id == del_call.all_entry_ids[Len(del_call.attempts) + 1]
       IN  \E failing \in SUBSET ({entry_id} \cap FailCandidates) :
              LET r == DeleteOne([total_deleted |-> del_call.total_deleted,
                                  failed_deletions |-> del_call.failed_deletions,
                                  attempts |-> del_call.attempts], entry_id, failing)
              IN  /\ db_entries' = db_entries \ ({entry_id} \ failing)
                  /\ del_call' = [del_call EXCEPT
                         !.total_deleted = r.total_deleted,
                         !.failed_deletions = r.failed_deletions,
                         !.attempts = r.attempts]
    /\ UNCHANGED deleteFrame

\* lines 97-109: the loop is over, (total_deleted, failed_df) is returned
DeleteReturn ==
    /\ del_call.pc = "delete"
    /\ Len(del_call.attempts) = Len(del_call.all_entry_ids)
    /\ del_call' = [del_call EXCEPT !.pc = "done"]
    /\ UNCHANGED <<deleteFrame, db_entries>>

DeleteNext == FetchPage \/ DeleteEntry \/ DeleteReturn

SpecDelete == DeleteInit /\ [][DeleteNext]_vars

(***************************************************************************)
(* C19: delete_all_database_entries fetches every entry of the form page   *)
(* by page and attempts to delete each, also when the form holds more      *)
(* entries than one page: on return every entry that existed at the start  *)
(* has been deleted or is listed in the failures.                          *)
(***************************************************************************)
C19_DeletesEveryEntry ==
    del_call.pc = "done" =>
        \A e \in 1..del_call.count :
            e \notin db_entries \/ e \in Range(del_call.failed_deletions)

(***************************************************************************)
(* user_.edit_user.  _get_all_user_data, _get_update_columns,              *)
(* _clean_user_data_for_save, _fetch_user_save and _report_user_results    *)
(* are imported from modules that are not part of the source tree; what    *)
(* they do is taken from their call sites and the docstring of edit_user.  *)
(***************************************************************************)
\* most rows of the mapping frame given to edit_user
MaxEditRecs == 2

EditCells ==
    { Str(<<"n", "@", "x">>), Str(<<"p", "@", "x">>),
      Str(<<" ", "N", "E", "Y", " ", "P", "O", "E", " ">>), Str(<<"z", "z">>) }

\* what _get_all_user_data does: the directory, no user, or an AMSError
UserFetches == {"users", "empty", "AMSError"}

\* DataFrame({"user_id": [None] * len(mapping_df), "user_key": ..., "reason": ...})
AllFailed(cells, reason) ==
    [i \in 1..Len(cells) |-> [user_id |-> None, user_key |-> cells[i], reason |-> reason]]

\* what the callbacks do for a row: payload_builder raises AMSError;
\* api_caller raises AMSError, returns (response, user_id) or (response, None)
RowOutcomes == {"build_raises", "call_raises", "saved", "no_user_id"}

\* the handler at line 212 reads user_key before line 207 has assigned it
UnboundUserKey ==
    [type |-> "UnboundLocalError",
     msg |-> "cannot access local variable 'user_key' where it is not associated with a value"]

\* one turn of the for loop (lines 204-214) on row i; c holds the locals.
\* user_key is assigned at line 207, after payload_builder(row) has returned
ProcessRow(c, row, i) ==
    LET tried == [c EXCEPT !.pos = i, !.attempts = Append(@, i)]
        keyed == [tried EXCEPT !.user_key = row.user_key, !.bound = TRUE]
    IN  CASE row.does = "build_raises" ->
               IF c.bound
               THEN [tried EXCEPT
                       !.failed_operations =
                           Append(@, [user_key |-> c.user_key, reason |-> "build"]),
                       !.failed_rows = Append(@, i)]
               ELSE [tried EXCEPT !.pc = "raised", !.err = UnboundUserKey]
          [] row.does = "call_raises" ->
               [keyed EXCEPT
                   !.failed_operations =
                       Append(@, [user_key |-> row.user_key, reason |-> "call"]),
                   !.failed_rows = Append(@, i)]
          [] row.does = "saved" ->
               [keyed EXCEPT !.user_ids = Append(@, row.user_id)]
          [] OTHER -> keyed

\* the for loop of _process_users (lines 204-214) from row i on; an exception
\* that is no AMSError ends it
RECURSIVE ProcessLoop(_, _, _)
ProcessLoop(c, rows, i) ==
    IF i > Len(rows) \/ c.pc = "raised" THEN c
    ELSE ProcessLoop(ProcessRow(c, rows[i], i), rows, i + 1)

\* _process_users(df, client, payload_builder, _fetch_user_save, user_key):
\* does[i] is what the callbacks do for row i
ProcessUsers(rows, does) ==
    LET c == ProcessLoop([NoProcessCall EXCEPT !.pc = "loop"],
                         [i \in 1..Len(rows) |->
                             [user_key |-> rows[i].user_key, user_id |-> rows[i].user_id.n,
                              does |-> does[i]]], 1)
    IN  [ outcome |-> IF c.pc = "raised" THEN "raised" ELSE "returned",
          err |-> c.err,
          failed_operations |->
              [j \in 1..Len(c.failed_operations) |->
                  [user_key |-> c.failed_operations[j].user_key,
                   reason |-> <<c.failed_operations[j].reason>>]],
          user_ids |-> c.user_ids,
          attempts |-> c.attempts ]

\* Step 7: user_id = mapping_df[mapping_df[user_key] == user_key_val]["user_id"].iloc[0]
WithUserId(ops, rows) ==
    [j \in 1..Len(ops) |->
        LET hit == SelectSeq(rows, LAMBDA r : r.user_key = ops[j].user_key)
        IN  [ user_id |-> IF hit # <<>> THEN hit[1].user_id ELSE None,
              user_key |-> ops[j].user_key, reason |-> ops[j].reason ]]

\* _report_user_results(len(df), failed_operations_with_user_key, user_ids, ...):
\* the frame of the failed operations it is given
ReportUserResults(failed_operations) == failed_operations

\* edit_user after get_client and _validate_user_data_for_edit
EditUser(cells, user_df, user_key, fetch, has_update_columns, does) ==
    IF fetch = "AMSError"
    THEN [outcome |-> "returned", err |-> NoError,
          value |-> AllFailed(cells, <<"Failed to retrieve user data: ">>),
          attempted |-> {}, saved |-> {}]
    ELSE IF fetch = "empty"
    THEN [outcome |-> "returned", err |-> NoError,
          value |-> AllFailed(cells, <<"No users found">>), attempted |-> {}, saved |-> {}]
    ELSE LET m == MatchUsersToMapping(cells, "object", user_df, user_key)
             p == ProcessUsers(m.mapping_df, does)
             \* the users of the rows the loop of _process_users reached
             reached == {m.mapping_df[i].user_id.n : i \in Range(p.attempts)}
         IN  IF m.mapping_df = <<>> \/ ~has_update_columns
             THEN [outcome |-> "returned", err |-> NoError, value |-> m.failed_df,
                   attempted |-> {}, saved |-> {}]
             ELSE IF p.outcome = "raised"
             THEN [outcome |-> "raised", err |-> p.err, value |-> <<>>,
                   attempted |-> reached, saved |-> Range(p.user_ids)]
             ELSE [outcome |-> "returned", err |-> NoError,
                   value |-> ReportUserResults(WithUserId(p.failed_operations, m.mapping_df)),
                   attempted |-> reached, saved |-> Range(p.user_ids)]

EditInputs ==
    { [mapping_df |-> cells, user_df |-> d, user_key |-> k] :
        cells \in UNION { [1..n -> EditCells] : n \in 1..MaxEditRecs },
        d \in Directories, k \in UserKeys }

EditInit ==
    /\ PipelineInit
    /\ ValIdle
    /\ LaterIdle
    /\ MatchIdle
    /\ OptionIdle
    /\ ClientIdle
    /\ DeleteIdle
    /\ edit_in \in EditInputs
    /\ edit_out = EditPending

RunEdit ==
    /\ edit_in.user_key \in UserKeys
    /\ edit_out.state = "pending"
    /\ \E fetch \in UserFetches, has_update_columns \in BOOLEAN,
          \* one outcome of the callbacks for each matched row
          does \in [1..Len(MatchUsersToMapping(edit_in.mapping_df, "object", edit_in.user_df,
                                               edit_in.user_key).mapping_df)
                      -> RowOutcomes] :
          LET r == EditUser(edit_in.mapping_df, edit_in.user_df, edit_in.user_key,
                            fetch, has_update_columns, does)
          IN  edit_out' = [state |-> r.outcome, value |-> r.value,
                           attempted |-> r.attempted, saved |-> r.saved, err |-> r.err]
    /\ UNCHANGED <<editFrame, edit_in>>

EditNext == RunEdit

SpecEdit == EditInit /\ [][EditNext]_vars

\* record i of the mapping frame was saved to a user it matched
Updated(i) ==
    \E u \in Range(edit_in.user_df) :
        /\ UserKeyValue(u, edit_in.user_key)
             = MappingKey(edit_in.mapping_df[i], edit_in.user_key)
        /\ u.id \in edit_out.saved

(***************************************************************************)
(* C18: the failure frame edit_user returns holds every record that was    *)
(* not updated, the records whose identifier matched no user included,     *)
(* also when other records of the call were matched and processed.         *)
(***************************************************************************)
C18_FailuresHoldEveryRecordNotUpdated ==
    (edit_out.state = "returned" /\ edit_out.attempted # {}) =>
        \A i \in 1..Len(edit_in.mapping_df) :
            ~Updated(i) =>
                \E f \in Range(edit_out.value) :
                    f.user_key \in { edit_in.mapping_df[i],
                                     MappingKey(edit_in.mapping_df[i], edit_in.user_key) }

(***************************************************************************)
(* file_main.upload_files, after get_client and _validate_file_path (which *)
(* raises when no file is found).  AMSError is a plain subclass of         *)
(* Exception (utils.py lines 8-17): called with the keywords function=,    *)
(* status_code= or endpoint= it cannot be constructed, and the call raises *)
(* TypeError.                                                              *)
(***************************************************************************)
\* most files found at file_path
MaxFiles == 2

FileNames == <<"f1", "f2", "f3", "f4">>
\* status codes of the upload response and of the status response
StatusCodes == {"200", "500"}
\* the body of the status response: valid with a file id, not JSON, the
\* uploadStatus error flag set, or data without an id
StatusBodies == {"ok", "not_json", "error", "no_id"}

\* the files found, each with what the server answers for it
UploadInputs ==
    { [files |-> fs, has_skype_name |-> sk] :
        fs \in UNION { { [i \in 1..n |-> [file_name |-> FileNames[i], upload |-> u[i],
                                          status |-> st[i], body |-> b[i]]] :
                          u \in [1..n -> StatusCodes], st \in [1..n -> StatusCodes],
                          b \in [1..n -> StatusBodies] } : n \in 1..MaxFiles },
        sk \in BOOLEAN }

\* AMSError(message, function=..., ...): Exception takes no keyword arguments
AMSErrorWithKeywords == [type |-> "TypeError", msg |-> "AMSError() takes no keyword arguments"]

\* the server-assigned id and name of an uploaded file
FileId(file) == Str(<<"i", "d">> \o <<file.file_name>>)
ServerFileName(file) == Str(<<"s", "r", "v">> \o <<file.file_name>>)

\* one turn of the for loop (lines 110-190): the entry appended, or the
\* exception that leaves the function; posts are the requests sent
UploadOne(file) ==
    IF file.upload # "200"
    THEN [outcome |-> "raised", err |-> AMSErrorWithKeywords, posts |-> <<"fileupload">>]
    ELSE IF file.status # "200" \/ file.body # "ok"
    THEN [outcome |-> "raised", err |-> AMSErrorWithKeywords,
          posts |-> <<"fileupload", "getUploadStatus">>]
    ELSE [outcome |-> "appended", err |-> NoError,
          posts |-> <<"fileupload", "getUploadStatus">>,
          entry |-> [file_name |-> file.file_name, file_id |-> FileId(file),
                     server_file_name |-> ServerFileName(file)]]

UploadInit ==
    /\ PipelineInit
    /\ ValIdle
    /\ MatchIdle /\ OptionIdle /\ ClientIdle /\ DeleteIdle /\ EditIdle
    /\ ProcessIdle /\ FetchIdle
    /\ up_in \in UploadInputs
    /\ up_call = [NoUploadCall EXCEPT !.pc = "start"]

\* lines 98-100: skypeName is read from the login data
UploadBegin ==
    /\ up_call.pc = "start"
    /\ up_call' = IF up_in.has_skype_name
                  THEN [up_call EXCEPT !.pc = "loop"]
                  ELSE [up_call EXCEPT !.pc = "raised", !.err = AMSErrorWithKeywords]
    /\ UNCHANGED <<uploadFrame, up_in>>

\* lines 110-190: the next file is uploaded and its status is asked for
UploadFile ==
    /\ up_call.pc = "loop"
    /\ up_call.pos < Len(up_in.files)
    /\ LET r == UploadOne(up_in.files[up_call.pos + 1])
       IN  up_call' =
             IF r.outcome = "raised"
             THEN [up_call EXCEPT !.pc = "raised", !.pos = @ + 1, !.err = r.err,
                                  !.posts = @ \o r.posts]
             ELSE [up_call EXCEPT !.pos = @ + 1, !.results = Append(@, r.entry),
                                  !.posts = @ \o r.posts]
    /\ UNCHANGED <<uploadFrame, up_in>>

\* lines 192-211: the loop is over and results is returned
UploadReturn ==
    /\ up_call.pc = "loop"
    /\ up_call.pos = Len(up_in.files)
    /\ up_call' = [up_call EXCEPT !.pc = "returned"]
    /\ UNCHANGED <<uploadFrame, up_in>>

UploadNext == UploadBegin \/ UploadFile \/ UploadReturn

SpecUpload == UploadInit /\ [][UploadNext]_vars

\* the upload request or the status request of the file failed
RequestFailed(file) == file.upload # "200" \/ file.status # "200"

(***************************************************************************)
(* C21: upload_files returns one entry per file found, in the order the    *)
(* files are processed; a file whose upload request or status request      *)
(* fails gets an entry with file_id None and server_file_name None, and    *)
(* the files after it are still uploaded.                                  *)
(***************************************************************************)
C21_OneEntryPerFile ==
    (up_in.has_skype_name /\ up_call.pc \in {"returned", "raised"}) =>
        /\ up_call.pc = "returned"
        /\ Len(up_call.results) = Len(up_in.files)
        /\ \A i \in 1..Len(up_in.files) :
              /\ up_call.results[i].file_name = up_in.files[i].file_name
              /\ RequestFailed(up_in.files[i]) =>
                    /\ up_call.results[i].file_id = None
                    /\ up_call.results[i].server_file_name = None

(***************************************************************************)
(* user_process._process_users: the loop over the rows of df with the      *)
(* callbacks payload_builder and api_caller.                               *)
(***************************************************************************)
\* most rows of df
MaxProcRows == 3

\* str(row[user_key_col]) of the rows, by position
RowKeys == <<"k1", "k2", "k3", "k4">>
\* the user id api_caller returns for row i
SavedUserId(i) == 100 + i

ProcessInputs ==
    UNION { { [i \in 1..n |-> [user_key |-> RowKeys[i], user_id |-> SavedUserId(i),
                               does |-> d[i]]] :
                d \in [1..n -> RowOutcomes] } : n \in 0..MaxProcRows }

ProcessInit ==
    /\ PipelineInit
    /\ ValIdle
    /\ MatchIdle /\ OptionIdle /\ ClientIdle /\ DeleteIdle /\ EditIdle
    /\ UploadIdle /\ FetchIdle
    /\ proc_in \in ProcessInputs
    /\ proc_call = [NoProcessCall EXCEPT !.pc = "loop"]

\* the next row of df.iterrows() is processed
ProcessNextRow ==
    /\ proc_call.pc = "loop"
    /\ proc_call.pos < Len(proc_in)
    /\ proc_call' = ProcessRow(proc_call, proc_in[proc_call.pos + 1], proc_call.pos + 1)
    /\ UNCHANGED <<processFrame, proc_in>>

\* line 216: return failed_operations, user_ids
ProcessReturn ==
    /\ proc_call.pc = "loop"
    /\ proc_call.pos = Len(proc_in)
    /\ proc_call' = [proc_call EXCEPT !.pc = "returned"]
    /\ UNCHANGED <<processFrame, proc_in>>

ProcessNext == ProcessNextRow \/ ProcessReturn

SpecProcess == ProcessInit /\ [][ProcessNext]_vars

\* the processing of row i raises AMSError
RowFails(i) == proc_in[i].does \in {"build_raises", "call_raises"}
\* the call is over
ProcessOver == proc_call.pc \in {"returned", "raised"}

(***************************************************************************)
(* C22: every failure entry of _process_users carries the user_key of the  *)
(* row whose processing failed, also when the AMSError comes from building *)
(* the payload of the row, and also for the first row: every row that has  *)
(* failed has such an entry.                                               *)
(***************************************************************************)
C22_FailureCarriesRowKey ==
    /\ \A j \in 1..Len(proc_call.failed_operations) :
          proc_call.failed_operations[j].user_key
              = proc_in[proc_call.failed_rows[j]].user_key
    /\ \A i \in 1..proc_call.pos :
          RowFails(i) => i \in Range(proc_call.failed_rows)

(***************************************************************************)
(* C23: an AMSError raised for one row is recorded in the failure list and *)
(* does not stop the batch: every row is attempted once, in input order,   *)
(* whatever happened to the rows before it.                                *)
(***************************************************************************)
C23_FailureDoesNotStopBatch ==
    ProcessOver =>
        /\ proc_call.pc = "returned"
        /\ proc_call.attempts = [i \in 1..Len(proc_in) |-> i]
        /\ \A i \in 1..Len(proc_in) :
              RowFails(i) => i \in Range(proc_call.failed_rows)

(***************************************************************************)
(* C24: after _process_users every input row is accounted for once: its    *)
(* user id is in the success list or it has exactly one entry in the       *)
(* failure list, so len(user_ids) + len(failed_operations) is the number   *)
(* of rows.                                                                *)
(***************************************************************************)
C24_EveryRowAccounted ==
    proc_call.pc = "returned" =>
        /\ Len(proc_call.user_ids) + Len(proc_call.failed_operations) = Len(proc_in)
        /\ \A i \in 1..Len(proc_in) :
              LET entries == {j \in 1..Len(proc_call.failed_rows) :
                                 proc_call.failed_rows[j] = i}
              IN  \/ SavedUserId(i) \in Range(proc_call.user_ids) /\ entries = {}
                  \/ SavedUserId(i) \notin Range(proc_call.user_ids)
                       /\ Cardinality(entries) = 1

(***************************************************************************)
(* C25: delete_all_database_entries attempts each fetched entry id once    *)
(* and continues after a failed deletion; on return total_deleted plus the *)
(* number of failed deletions is the number of ids fetched, and no id is   *)
(* both deleted and listed as failed.                                      *)
(***************************************************************************)
C25_EachFetchedIdAttemptedOnce ==
    del_call.pc = "done" =>
        /\ del_call.attempts = del_call.all_entry_ids
        /\ del_call.total_deleted + Len(del_call.failed_deletions)
              = Len(del_call.all_entry_ids)
        /\ \A e \in Range(del_call.all_entry_ids) :
              (e \in Range(del_call.failed_deletions)) <=> (e \in db_entries)

\* a deletion failed and a later one went through
C25_Witness ==
    /\ del_call.pc = "done"
    /\ del_call.failed_deletions = <<1>>
    /\ del_call.total_deleted = Len(del_call.all_entry_ids) - 1
    /\ del_call.total_deleted > 0
    /\ 2 \notin db_entries

(***************************************************************************)
(* AMSClient._fetch with the responses it caches, and delete_event_data    *)
(* and delete_multiple_events called with that client.                     *)
(***************************************************************************)
\* calls made on the client in one run
MaxFetchCalls == 3

\* self.url, and the endpoints and payloads (as str(payload)) of the reads
ClientUrl == <<"h", "/", "s">>
ReadEndpoints == { <<"u">> }
ReadPayloads == { <<>>, <<"{", "1", "}">> }
\* what the server does with a request: a JSON body, an empty body, a
\* status that is not 200, no answer
FetchResponses == {"json", "empty", "500", "transport"}

\* response.json(): the data the server holds, in version v
JsonData(v) == [k |-> "json", v |-> v]
\* the dict {"state": "SUCCESS", "message": ...} deleteevent answers with
StateDict == [k |-> "dict", v |-> 0]

\* cache_key: the digest of url, endpoint and str(payload or '') joined;
\* the digest is taken to tell different strings apart
CacheKey(url, endpoint, payload) == url \o endpoint \o payload

\* self._cache[cache_key]
Cached(cache, key) == (CHOOSE e \in cache : e.key = key).data
CacheKeys(cache) == {e.key : e \in cache}

\* client._fetch(endpoint, payload=payload, cache=use_cache); body is what
\* a JSON answer of the server holds
ClientFetchMutAlwaysSends(client, endpoint, payload, use_cache, response, body) ==
    LET key == CacheKey(ClientUrl, endpoint, payload)
        data == IF response = "json" THEN body ELSE NoData
    IN  [sent |-> TRUE, outcome |-> "data", data |-> data,
         cache |-> {e \in client.cache : e.key # key} \cup {[key |-> key, data |-> data]}]
ClientFetchMutNoClear(client, endpoint, payload, use_cache, response, body) ==
    LET key == CacheKey(ClientUrl, endpoint, payload)
        data == IF response = "json" THEN body ELSE NoData
    IN  IF ~client.authenticated
        THEN [sent |-> FALSE, outcome |-> "AMSError", data |-> NoData, cache |-> client.cache]
        ELSE IF use_cache /\ key \in CacheKeys(client.cache)
        THEN [sent |-> FALSE, outcome |-> "data", data |-> Cached(client.cache, key),
              cache |-> client.cache]
        ELSE IF response = "transport"
        THEN [sent |-> TRUE, outcome |-> "RequestException", data |-> NoData,
              cache |-> client.cache]
        ELSE IF response = "500"
        THEN [sent |-> TRUE, outcome |-> "AMSError", data |-> NoData, cache |-> client.cache]
        ELSE [sent |-> TRUE, outcome |-> "data", data |-> data,
              cache |-> IF use_cache
                        THEN {e \in client.cache : e.key # key}
                                 \cup {[key |-> key, data |-> data]}
                        ELSE client.cache]
ClientFetch(client, endpoint, payload, use_cache, response, body) ==
    LET key == CacheKey(ClientUrl, endpoint, payload)
        data == IF response = "json" THEN body ELSE NoData
    IN  \* a client that is not authenticated has no credentials: login raises
        IF ~client.authenticated
        THEN [sent |-> FALSE, outcome |-> "AMSError", data |-> NoData, cache |-> client.cache]
        ELSE IF use_cache /\ key \in CacheKeys(client.cache)
        THEN [sent |-> FALSE, outcome |-> "data", data |-> Cached(client.cache, key),
              cache |-> client.cache]
        ELSE IF response = "transport"
        THEN [sent |-> TRUE, outcome |-> "RequestException", data |-> NoData,
              cache |-> client.cache]
        ELSE IF response = "500"
        THEN [sent |-> TRUE, outcome |-> "AMSError", data |-> NoData, cache |-> client.cache]
        ELSE [sent |-> TRUE, outcome |-> "data", data |-> data,
              cache |-> IF use_cache
                        THEN {e \in client.cache : e.key # key}
                                 \cup {[key |-> key, data |-> data]}
                        ELSE {}]

\* delete_event_data(event_id, url, client=client) with a valid event_id;
\* cancelled: interactive_mode is on and the user does not confirm
DeleteEventData(client, cancelled, response) ==
    LET r == ClientFetch(client, <<"d">>, <<"{", "e", "}">>, FALSE, response, StateDict)
    IN  IF cancelled
        THEN [sent |-> FALSE, outcome |-> "AMSError", data |-> NoData, cache |-> client.cache,
              deleted |-> FALSE]
        ELSE IF r.outcome # "data"
        THEN [sent |-> r.sent, outcome |-> r.outcome, data |-> NoData, cache |-> r.cache,
              deleted |-> FALSE]
        ELSE IF r.data # StateDict
        THEN [sent |-> r.sent, outcome |-> "AMSError", data |-> NoData, cache |-> r.cache,
              deleted |-> FALSE]
        ELSE [sent |-> r.sent, outcome |-> "data", data |-> r.data, cache |-> r.cache,
              deleted |-> TRUE]

\* delete_multiple_events(event_ids, url, client=client) with valid event_ids
DeleteMultipleEvents(client, cancelled, response) ==
    LET r == ClientFetch(client, <<"D">>, <<"{", "e", "s", "}">>, FALSE, response, StateDict)
    IN  IF cancelled
        THEN [sent |-> FALSE, outcome |-> "AMSError", data |-> NoData, cache |-> client.cache,
              deleted |-> FALSE]
        ELSE IF r.outcome # "data"
        THEN [sent |-> r.sent, outcome |-> r.outcome, data |-> NoData, cache |-> r.cache,
              deleted |-> FALSE]
        ELSE IF r.data # NoData
        THEN [sent |-> r.sent, outcome |-> "AMSError", data |-> NoData, cache |-> r.cache,
              deleted |-> FALSE]
        ELSE [sent |-> r.sent, outcome |-> "data", data |-> NoData, cache |-> r.cache,
              deleted |-> TRUE]

FetchInit ==
    /\ PipelineInit
    /\ ValIdle
    /\ MatchIdle /\ OptionIdle /\ ClientIdle /\ DeleteIdle /\ EditIdle
    /\ UploadIdle /\ ProcessIdle
    /\ fclient \in {[authenticated |-> a, cache |-> {}] : a \in BOOLEAN}
    /\ fserver = 1
    /\ flast = NoFetchCall
    /\ fcalls = 0

\* the call that flast describes, as the next call sees it
Prev == [fn |-> flast.fn, outcome |-> flast.outcome, before |-> flast.before]

\* a read: client._fetch(endpoint, payload=payload, cache=cache)
CallFetch ==
    /\ fcalls < MaxFetchCalls
    /\ \E endpoint \in ReadEndpoints, payload \in ReadPayloads, cache \in BOOLEAN,
          response \in FetchResponses :
          LET r == ClientFetch(fclient, endpoint, payload, cache, response, JsonData(fserver))
          IN  /\ fclient' = [fclient EXCEPT !.cache = r.cache]
              /\ flast' = [fn |-> "_fetch", endpoint |-> endpoint, payload |-> payload,
                           cache |-> cache, response |-> response,
                           before |-> fclient.cache, sent |-> r.sent,
                           outcome |-> r.outcome, data |-> r.data, prev |-> Prev]
    /\ fcalls' = fcalls + 1
    /\ UNCHANGED <<fetchFrame, fserver>>

\* delete_event_data with the client
CallDeleteEventData ==
    /\ fcalls < MaxFetchCalls
    /\ \E cancelled \in BOOLEAN, response \in FetchResponses :
          LET r == DeleteEventData(fclient, cancelled, response)
          IN  /\ fclient' = [fclient EXCEPT !.cache = r.cache]
              /\ fserver' = IF r.deleted THEN fserver + 1 ELSE fserver
              /\ flast' = [fn |-> "delete_event_data", endpoint |-> <<"d">>,
                           payload |-> <<"{", "e", "}">>, cache |-> FALSE,
                           response |-> response, before |-> fclient.cache,
                           sent |-> r.sent, outcome |-> r.outcome, data |-> r.data,
                           prev |-> Prev]
    /\ fcalls' = fcalls + 1
    /\ UNCHANGED fetchFrame

\* delete_multiple_events with the client
CallDeleteMultipleEvents ==
    /\ fcalls < MaxFetchCalls
    /\ \E cancelled \in BOOLEAN, response \in FetchResponses :
          LET r == DeleteMultipleEvents(fclient, cancelled, response)
          IN  /\ fclient' = [fclient EXCEPT !.cache = r.cache]
              /\ fserver' = IF r.deleted THEN fserver + 1 ELSE fserver
              /\ flast' = [fn |-> "delete_multiple_events", endpoint |-> <<"D">>,
                           payload |-> <<"{", "e", "s", "}">>, cache |-> FALSE,
                           response |-> response, before |-> fclient.cache,
                           sent |-> r.sent, outcome |-> r.outcome, data |-> r.data,
                           prev |-> Prev]
    /\ fcalls' = fcalls + 1
    /\ UNCHANGED fetchFrame

FetchNext == CallFetch \/ CallDeleteEventData \/ CallDeleteMultipleEvents

SpecFetch == FetchInit /\ [][FetchNext]_vars

\* the cache key of the last call
LastKey == CacheKey(ClientUrl, flast.endpoint, flast.payload)
\* the last call was a read with cache=True
CachedRead == flast.fn = "_fetch" /\ flast.cache

(***************************************************************************)
(* C26: with cache=True a second _fetch for the same url, endpoint and     *)
(* payload returns the response the first one stored and sends no HTTP     *)
(* request; a request that fails with a status other than 200 stores       *)
(* nothing and leaves the cache as it was.                                 *)
(***************************************************************************)
C26_CachedFetchServedFromCache ==
    /\ (CachedRead /\ LastKey \in CacheKeys(flast.before)) =>
          /\ ~flast.sent
          /\ flast.outcome = "data"
          /\ flast.data = Cached(flast.before, LastKey)
          /\ fclient.cache = flast.before
    /\ (flast.sent /\ flast.response = "500") =>
          /\ flast.outcome = "AMSError"
          /\ fclient.cache = flast.before

\* a read is served from the entry an earlier read stored
C26_Witness ==
    /\ CachedRead
    /\ LastKey \in CacheKeys(flast.before)
    /\ ~flast.sent
    /\ flast.prev.fn = "_fetch"
    /\ flast.data = JsonData(fserver)

\* the call before the last one was a delete that went through
AfterDelete ==
    /\ flast.prev.fn \in {"delete_event_data", "delete_multiple_events"}
    /\ flast.prev.outcome = "data"

(***************************************************************************)
(* C27: a successful _fetch with cache=False empties the whole response    *)
(* cache of the client, so after a successful delete_event_data or         *)
(* delete_multiple_events the next read with cache=True on that client is  *)
(* sent to the server, never served from an entry stored before the        *)
(* delete.                                                                 *)
(***************************************************************************)
C27_DeleteEmptiesCache ==
    /\ (flast.sent /\ ~flast.cache /\ flast.response \in {"json", "empty"}) =>
          fclient.cache = {}
    /\ (AfterDelete /\ CachedRead) =>
          /\ flast.before = {}
          /\ flast.sent
          /\ flast.outcome = "data" => flast.data \in {JsonData(fserver), NoData}

\* a read of something that was cached before the delete is sent again
C27_Witness ==
    /\ AfterDelete
    /\ CachedRead
    /\ LastKey \in CacheKeys(flast.prev.before)
    /\ flast.sent
    /\ flast.data = JsonData(fserver)

====
